---- MODULE Spec2Model ----
(***************************************************************************)
(* A model of the IMQS log scraper (package logscraper): the tailing       *)
(* engine (runSource, handleLogRoll, scan), the state store (loadState,    *)
(* saveState), the relay fan-out (NotifyAllRelayers and the two sinks) and *)
(* the orchestrating loop (Run), the loading of the configuration and the  *)
(* dampening of repeated errors, together with the environment they run    *)
(* in: a writer that appends to and rotates the watched files, failing     *)
(* opens and reads of the files, and restarts of the process.              *)
(*                                                                         *)
(* A file is a sequence of entries, one per line, each                     *)
(*     [id, p, sev, n, w]                                                  *)
(* id the line's identity (its content: two entries hold the same bytes    *)
(* iff their ids are equal), p whether the source's parser accepts the     *)
(* complete line, sev its severity, n its length without the LF and w the  *)
(* number of its bytes written so far (w = n + 1 once the LF is there).    *)
(* Only the last entry of a file can have w <= n: a half-written line.     *)
(***************************************************************************)
EXTENDS Integers, Sequences, FiniteSets, TLC

\* ---------------------------------------------------------------- bounds
MaxScanLines == 4
MaxTailLines == 3
MaxPartials == 1
MaxRollLines == 4
MaxRotations == 2
MaxRestartLines == 2
MaxRestarts == 1
MaxServices == 1
MaxLogs == 2
MaxFaultLines == 2
MaxFaultRotations == 1
MaxDampenLines == 2
MaxDampenRotations == 1
MaxTicks == 8
MaxHostLen == 2
MaxDigits == 3
MaxShutdownLines == 2
MaxRewindLines == 3
MaxRewinds == 1
MaxLiveLines == 2

\* ------------------------------------------------------ program constants
SigLen == 64
HdrLen == 36

\* ------------------------------------------------------------- utilities
Min(a, b) == IF a < b THEN a ELSE b
Max(a, b) == IF a > b THEN a ELSE b

RECURSIVE Flatten(_)
Flatten(ss) == IF ss = <<>> THEN <<>> ELSE Head(ss) \o Flatten(Tail(ss))

RECURSIVE SumW(_)
SumW(f) == IF f = <<>> THEN 0 ELSE f[1].w + SumW(Tail(f))

\* The length in bytes of a file: what Seek(0, SEEK_END) returns.
FileLen(f) == SumW(f)

\* The offset of the first byte of entry k of file f.
StartOf(f, k) == SumW(SubSeq(f, 1, k - 1))

\* The lines a writer can produce: an informational line of 39 bytes, an
\* error line of 69 bytes (both in the dialect of the source's parser) and a
\* line of 9 bytes that no parser accepts (a stack-trace line).
LineKinds ==
  { [p |-> TRUE,  sev |-> "I", n |-> 39],
    [p |-> TRUE,  sev |-> "E", n |-> 69],
    [p |-> FALSE, sev |-> "",  n |-> 9] }

\* ---------------------------------------------------------------- parser
\* A line handed to the parser is a slice [from, to) of the content of the
\* line id.  The parsers match "<timestamp> [<severity>] <message>": the
\* slice parses iff it is of a line in the dialect, starts at the line's
\* first byte and holds the whole header (timestamp, severity, separators:
\* HdrLen bytes); the message is whatever follows the header in the slice.
ParseOk(line) == line.p /\ line.from = 0 /\ line.to >= HdrLen

\* A run of content bytes: bytes [from, to) of line id.
Bytes(id, from, to) == IF from < to THEN << <<id, from, to>> >> ELSE <<>>

NL == <<0, 0, 0>>

Parse(line) ==
  [ id       |-> line.id,
    Severity |-> line.sev,
    Message  |-> Bytes(line.id, HdrLen, line.to),
    Source   |-> "" ]

\* The number of bytes of a sequence of byte runs.
RECURSIVE ByteLen(_)
ByteLen(bs) ==
  IF bs = <<>> THEN 0
  ELSE (IF bs[1] = NL THEN 1 ELSE bs[1][3] - bs[1][2]) + ByteLen(Tail(bs))

\* --------------------------------------------------------- line scanner
\* bufio.Scanner with ScanLines over the bytes of f from offset pos to the
\* end: one token per line that has a byte at or after pos, without its LF;
\* a last line without LF is a token too.
RECURSIVE TokensFrom(_, _, _)
TokensFrom(f, k, pos) ==
  IF k > Len(f) THEN <<>>
  ELSE LET e     == f[k]
           start == StartOf(f, k)
           from  == Max(0, pos - start)
           tok   == [id |-> e.id, p |-> e.p, sev |-> e.sev,
                     from |-> from, to |-> Min(e.w, e.n)]
       IN  (IF from < e.w THEN <<tok>> ELSE <<>>) \o TokensFrom(f, k + 1, pos)

\* A scanner that reads the file from its first byte, wherever the file
\* was positioned.
TokensRewound(f, pos) == TokensFrom(f, 1, 0)

Tokens(f, pos) == TokensFrom(f, 1, pos)

\* The position of the file after the scanner has read to the end: the end
\* of the file, or pos when the seek went beyond it.
EndPos(f, pos) == Max(pos, FileLen(f))

\* ------------------------------------------------------------------ scan
\* LogMsg.toMessageArray: the record, tagged with its source, as it is
\* appended to the batch.
ToMessageArray(m, source) == [m EXCEPT !.Source = source]

\* The state of the loop of scan before its first line: no message, nothing
\* discarded, no unparseable lines, no previous message (prev_msg is a
\* sequence of at most one record; <<>> is nil).
ScanStart ==
  [messages |-> <<>>, discarded |-> 0, extraLines |-> <<>>, prev_msg |-> <<>>]

\* An iteration that forgets the unparseable lines instead of folding them
\* into the previous message.
ScanLineNoFold(st, line, source) ==
  IF ParseOk(line)
  THEN [ messages   |->
           IF st.prev_msg # <<>>
           THEN Append(st.messages, ToMessageArray(st.prev_msg[1], source))
           ELSE st.messages,
         discarded  |->
           IF st.prev_msg # <<>> THEN st.discarded
           ELSE st.discarded + ByteLen(st.extraLines),
         extraLines |-> <<>>,
         prev_msg   |-> <<Parse(line)>> ]
  ELSE [st EXCEPT !.extraLines =
                     @ \o <<NL>> \o Bytes(line.id, line.from, line.to)]

\* An iteration that keeps the unparseable lines met before the first
\* parseable line and puts them in front of that line's message.
ScanLineKeepLeading(st, line, source) ==
  IF ParseOk(line)
  THEN [ messages   |->
           IF st.prev_msg # <<>>
           THEN Append(st.messages,
                       ToMessageArray([st.prev_msg[1] EXCEPT
                                         !.Message = @ \o st.extraLines],
                                      source))
           ELSE st.messages,
         discarded  |-> st.discarded,
         extraLines |-> <<>>,
         prev_msg   |->
           IF st.prev_msg # <<>> THEN <<Parse(line)>>
           ELSE << [Parse(line) EXCEPT !.Message = st.extraLines \o @] >> ]
  ELSE [st EXCEPT !.extraLines =
                     @ \o <<NL>> \o Bytes(line.id, line.from, line.to)]

\* One iteration of the loop of scan, on one line of the scanner.
ScanLine(st, line, source) ==
  IF ParseOk(line)
  THEN [ messages   |->
           IF st.prev_msg # <<>>
           THEN Append(st.messages,
                       ToMessageArray([st.prev_msg[1] EXCEPT
                                         !.Message = @ \o st.extraLines],
                                      source))
           ELSE st.messages,
         discarded  |->
           IF st.prev_msg # <<>> THEN st.discarded
           ELSE st.discarded + ByteLen(st.extraLines),
         extraLines |-> <<>>,
         prev_msg   |-> <<Parse(line)>> ]
  ELSE [st EXCEPT !.extraLines =
                     @ \o <<NL>> \o Bytes(line.id, line.from, line.to)]

RECURSIVE ScanLoop(_, _, _)
ScanLoop(st, toks, source) ==
  IF toks = <<>> THEN st
  ELSE ScanLoop(ScanLine(st, Head(toks), source), Tail(toks), source)

\* What scan does once the scanner is at the end of the file: the previous
\* message, if any, goes to the batch as it is.
ScanEnd(st, source) ==
  [st EXCEPT !.messages =
     IF st.prev_msg # <<>>
     THEN Append(@, ToMessageArray(st.prev_msg[1], source))
     ELSE @]

\* A scan that sets lastPos to the number of bytes it read instead of the
\* position of the file.
ScanBytesRead(f, pos, source) ==
  LET st == ScanEnd(ScanLoop(ScanStart, Tokens(f, pos), source), source)
  IN  [ messages   |-> st.messages,
        discarded  |-> st.discarded,
        extraLines |-> st.extraLines,
        pending    |-> st.prev_msg # <<>>,
        lastPos    |-> EndPos(f, pos) - pos ]

\* scan of file f from offset pos: the batch, the bytes discarded, the
\* unparseable lines left in the buffer when the scan ends, and the new
\* lastPos.
Scan(f, pos, source) ==
  LET st == ScanEnd(ScanLoop(ScanStart, Tokens(f, pos), source), source)
  IN  [ messages   |-> st.messages,
        discarded  |-> st.discarded,
        extraLines |-> st.extraLines,
        pending    |-> st.prev_msg # <<>>,
        lastPos    |-> EndPos(f, pos) ]

\* ------------------------------------------------------------- signature
\* The first n bytes of f, as runs <<id, k>>: the first k bytes of line id
\* (with its LF when k = n + 1 of that line).
RECURSIVE Prefix(_, _)
Prefix(f, n) ==
  IF n = 0 \/ f = <<>> THEN <<>>
  ELSE LET k == Min(f[1].w, n)
       IN  << <<f[1].id, k>> >> \o Prefix(Tail(f), n - k)

\* A readFileSignature that returns what it read of a file that holds fewer
\* than SigLen bytes.
ReadFileSignatureShort(f) ==
  IF f # <<>> THEN Prefix(f, SigLen) ELSE <<>>

\* readFileSignature: the first SigLen bytes, or nil (<<>>, with an error)
\* when the file holds fewer.
ReadFileSignature(f) ==
  IF FileLen(f) >= SigLen THEN Prefix(f, SigLen) ELSE <<>>

\* ---------------------------------------------------------------- fan-out
Sinks == {"Loggly", "Datadog"}
datadogSeverities == {"ERROR", "E", "FATAL", "F"}
datadogSourceExclusions == {"www_js", "yellowfin"}

\* The outcome of a Send: the POSTs it made, each [sink, body, err] with err
\* whether http.DefaultClient.Post returned an error, and whether the Send
\* ended in a panic instead of returning.
\* LogglyReceiver.Send with a severity filter like Datadog's.
LogglySendFiltered(messages, down) ==
  [ posts    |-> << [sink |-> "Loggly",
                     body |-> SelectSeq(messages,
                                LAMBDA m : m.Severity \in datadogSeverities),
                     err |-> "Loggly" \in down] >>,
    panicked |-> FALSE ]

\* LogglyReceiver.Send: one POST of the whole batch; an error is logged and
\* the Send returns.
LogglySend(messages, down) ==
  [ posts    |-> << [sink |-> "Loggly", body |-> messages,
                     err |-> "Loggly" \in down] >>,
    panicked |-> FALSE ]

\* DatadogReceiver.Send: one POST per message of a listed severity and a
\* source that is not excluded.  When the POST returns an error the error
\* is logged and resp, which is nil, is dereferenced by resp.Body.Close():
\* the goroutine panics.
RECURSIVE DatadogSend(_, _)
DatadogSend(messages, down) ==
  IF messages = <<>> THEN [posts |-> <<>>, panicked |-> FALSE]
  ELSE LET m == Head(messages)
           post == [sink |-> "Datadog", body |-> <<m>>,
                    err |-> "Datadog" \in down]
           rest == DatadogSend(Tail(messages), down)
       IN  IF m.Severity \in datadogSeverities
              /\ m.Source \notin datadogSourceExclusions
           THEN IF post.err
                THEN [posts |-> <<post>>, panicked |-> TRUE]
                ELSE [posts |-> <<post>> \o rest.posts,
                      panicked |-> rest.panicked]
           ELSE rest

Send(sink, messages, down) ==
  IF sink = "Loggly" THEN LogglySend(messages, down)
  ELSE DatadogSend(messages, down)

\* NotifyAllRelayers: Send on every receiver, in the order in which the
\* range over the map receivers yields them; a panic ends the loop.
\* called lists the receivers whose Send was entered.
RECURSIVE NotifyAllRelayers(_, _, _)
NotifyAllRelayers(order, messages, down) ==
  IF order = <<>> THEN [called |-> <<>>, posts |-> <<>>, panicked |-> FALSE]
  ELSE LET r    == Send(Head(order), messages, down)
           rest == NotifyAllRelayers(Tail(order), messages, down)
       IN  IF r.panicked
           THEN [called |-> <<Head(order)>>, posts |-> r.posts,
                 panicked |-> TRUE]
           ELSE [called |-> <<Head(order)>> \o rest.called,
                 posts |-> r.posts \o rest.posts,
                 panicked |-> rest.panicked]

\* The orders in which a range over a Go map of the receivers rcv can
\* yield them: any.
Orders(rcv) ==
  { o \in [1..Cardinality(rcv) -> rcv] :
      \A i, j \in 1..Cardinality(rcv) : o[i] = o[j] => i = j }

\* An end of scan that hands over the batch whether or not it holds a
\* record.
RelayAlways(messages, order, down) ==
  << [batch |-> messages] @@ NotifyAllRelayers(order, messages, down) >>

\* The end of scan: the batch goes to NotifyAllRelayers when it is not
\* empty.  <<>> when there was no call, else the one outcome of the call.
Relay(messages, order, down) ==
  IF messages # <<>>
  THEN << [batch |-> messages] @@ NotifyAllRelayers(order, messages, down) >>
  ELSE <<>>

Panicked(notifies) == \E i \in DOMAIN notifies : notifies[i].panicked

\* A handleLogRoll that takes the first path of the glob for the archive,
\* whatever its signature.
FirstMatchUnsigned(matches, sig, k) ==
  IF k > Len(matches) THEN 0 ELSE k

\* ----------------------------------------------------------- rotation
\* handleLogRoll: the first file among the glob's matches whose signature
\* equals the remembered one is scanned from lastPos.  match is its index
\* among the matches (0: none), scan the outcome of its scan.
RECURSIVE FirstMatch(_, _, _)
FirstMatch(matches, sig, k) ==
  IF k > Len(matches) THEN 0
  ELSE IF ReadFileSignature(matches[k]) = sig THEN k
  ELSE FirstMatch(matches, sig, k + 1)

HandleLogRoll(matches, sig, pos, source) ==
  LET m == FirstMatch(matches, sig, 1)
  IN  [ match |-> m,
        scan  |-> IF m # 0 THEN Scan(matches[m], pos, source)
                  ELSE [messages |-> <<>>, discarded |-> 0,
                        extraLines |-> <<>>, pending |-> FALSE,
                        lastPos |-> pos] ]

\* A runSource without the test for a rewind.
TailingNoRewind(f, matches, pos, sig, source) ==
  [ rewind  |-> FALSE,
    match   |-> 0,
    roll    |-> <<>>,
    rollPos |-> pos,
    pos0    |-> pos,
    sig0    |-> sig,
    pos1    |-> pos,
    sig1    |-> sig,
    short   |-> pos = 0 /\ ReadFileSignature(f) = <<>>,
    sig2    |-> IF pos = 0 THEN ReadFileSignature(f) ELSE sig,
    scan    |-> Scan(f, pos, source),
    len     |-> FileLen(f),
    scanEnd |-> Scan(f, FileLen(f), source),
    candidates |-> 0,
    source  |-> source ]

\* A runSource that also takes a file of length lastPos for a rewind.
TailingRewindAtEqual(f, matches, pos, sig, source) ==
  LET rewind == pos > 0 /\ FileLen(f) <= pos
      roll   == HandleLogRoll(matches, sig, pos, source)
      pos1   == IF rewind THEN 0 ELSE pos
      sig1   == IF rewind THEN <<>> ELSE sig
      newsig == ReadFileSignature(f)
  IN  [ rewind  |-> rewind,
        match   |-> IF rewind THEN roll.match ELSE 0,
        roll    |-> IF rewind THEN roll.scan.messages ELSE <<>>,
        rollPos |-> IF rewind THEN roll.scan.lastPos ELSE pos,
        pos0    |-> pos,
        sig0    |-> sig,
        pos1    |-> pos1,
        sig1    |-> sig1,
        short   |-> pos1 = 0 /\ newsig = <<>>,
        sig2    |-> IF pos1 = 0 THEN newsig ELSE sig1,
        scan    |-> Scan(f, pos1, source),
        len     |-> FileLen(f),
        scanEnd |-> Scan(f, FileLen(f), source),
        candidates |-> IF ~rewind THEN 0
                       ELSE IF roll.match = 0 THEN Len(matches)
                       ELSE roll.match,
        source  |-> source ]

\* ---------------------------------------------------------------- poll
\* runSource on the file f, with the glob's matches, from the source's
\* lastPos pos and firstLine sig, up to the calls of NotifyAllRelayers:
\* whether a rewind is seen, the archive handleLogRoll finds and its scan,
\* whether the file is too short for a signature, and the scan of the file.
Tailing(f, matches, pos, sig, source) ==
  LET rewind == FileLen(f) < pos
      roll   == HandleLogRoll(matches, sig, pos, source)
      pos1   == IF rewind THEN 0 ELSE pos
      sig1   == IF rewind THEN <<>> ELSE sig
      newsig == ReadFileSignature(f)
  IN  [ rewind  |-> rewind,
        match   |-> IF rewind THEN roll.match ELSE 0,
        roll    |-> IF rewind THEN roll.scan.messages ELSE <<>>,
        rollPos |-> IF rewind THEN roll.scan.lastPos ELSE pos,
        pos0    |-> pos,
        sig0    |-> sig,
        pos1    |-> pos1,
        sig1    |-> sig1,
        short   |-> pos1 = 0 /\ newsig = <<>>,
        sig2    |-> IF pos1 = 0 THEN newsig ELSE sig1,
        scan    |-> Scan(f, pos1, source),
        len     |-> FileLen(f),
        scanEnd |-> Scan(f, FileLen(f), source),
        candidates |-> IF ~rewind THEN 0
                       ELSE IF roll.match = 0 THEN Len(matches)
                       ELSE roll.match,
        source  |-> source ]

\* The outcome of the runSource that tails as t says: o1 and o2 are the
\* orders of the map while the archive's batch and the watched file's batch
\* are relayed, down the endpoints whose POSTs fail.  The new lastPos and
\* firstLine, the calls of NotifyAllRelayers in order, whether the goroutine
\* panicked, and what the scan of the watched file went through (from: the
\* offset it started at).
RunSourceResult(t, o1, o2, down) ==
  LET n1   == Relay(t.roll, o1, down)
      n2   == Relay(t.scan.messages, o2, down)
      base == [ rewind |-> t.rewind, match |-> t.match, pos0 |-> t.pos0,
                sig0 |-> t.sig0, from |-> t.pos1, source |-> t.source ]
      none == [ scanned |-> FALSE, messages |-> <<>>, discarded |-> 0,
                extraLines |-> <<>>, pending |-> FALSE ]
  IN  IF Panicked(n1)
      THEN base @@ none @@
           [ lastPos |-> t.rollPos, firstLine |-> t.sig0,
             notifies |-> n1, panicked |-> TRUE ]
      ELSE IF t.short
      THEN base @@ none @@
           [ lastPos |-> t.pos1, firstLine |-> t.sig1,
             notifies |-> n1, panicked |-> FALSE ]
      ELSE base @@
           [ lastPos |-> t.scan.lastPos, firstLine |-> t.sig2,
             notifies |-> n1 \o n2, panicked |-> Panicked(n2),
             scanned |-> TRUE,
             messages |-> t.scan.messages,
             discarded |-> t.scan.discarded,
             extraLines |-> t.scan.extraLines,
             pending |-> t.scan.pending ]

\* ----------------------------------------------------------- failures
\* What the operating system does to a poll: nothing, os.Open of the watched
\* file fails, or a read fails during the scan of the watched file, so that
\* scanner.Err() is not nil (a line longer than bufio.Scanner's token limit
\* ends the scan in the same way).
Faults == {"none", "open", "read"}

\* A Seek on the watched file that fails: the Seek to the END, the Seek to
\* 0 after a rewind, or the Seek to lastPos before the scan.  A Seek that
\* fails leaves the position of the handle where it was.
SeekFaults == {"seekEnd", "seekSet", "seekPos"}

\* The outcome of runSource under the fault.  When os.Open fails runSource
\* returns at once.  When the scan of the watched file ends in an error,
\* scan returns before it hands over a batch and before it moves lastPos:
\* lastPos is as runSource left it, firstLine as saveFileSignature left it.
\* opened: os.Open succeeded; readErr: the scan ended in an error; sigSave:
\* what became of saveFileSignature (skipped, failed, saved).  When the
\* Seek to the END fails runSource returns before it looks at the length.
\* When the Seek to 0 after a rewind fails, handleLogRoll has already run:
\* the archive's batch is relayed and lastPos is where the archive's scan
\* ended.  When the Seek to lastPos fails the failure is logged and scan
\* runs from where the handle is: offset 0 after saveFileSignature, else
\* the end of the file, where the first Seek left it.  seekErr: the Seek
\* whose failure was logged.
RunSourceFault(t, o1, o2, down, fault) ==
  LET r  == RunSourceResult(t, o1, o2, down)
      n1 == Relay(t.roll, o1, down)
      untouched == [ r EXCEPT !.rewind = FALSE, !.match = 0, !.from = t.pos0,
                              !.lastPos = t.pos0, !.firstLine = t.sig0,
                              !.notifies = <<>>, !.panicked = FALSE,
                              !.scanned = FALSE, !.messages = <<>>,
                              !.discarded = 0, !.extraLines = <<>>,
                              !.pending = FALSE ]
      sigSave == IF (r.panicked /\ ~r.scanned) \/ t.pos1 # 0
                 THEN "skipped"
                 ELSE IF t.short THEN "failed" ELSE "saved"
  IN  IF fault = "open"
      THEN untouched @@ [opened |-> FALSE, readErr |-> FALSE,
                         sigSave |-> "skipped", seekErr |-> "none"]
      ELSE IF fault = "seekEnd"
      THEN untouched @@ [opened |-> TRUE, readErr |-> FALSE,
                         sigSave |-> "skipped", seekErr |-> "seekEnd"]
      ELSE IF fault = "seekSet" /\ t.rewind /\ ~Panicked(n1)
      THEN [ r EXCEPT !.lastPos = t.rollPos, !.firstLine = t.sig0,
                      !.notifies = n1, !.panicked = FALSE,
                      !.scanned = FALSE, !.messages = <<>>,
                      !.discarded = 0, !.extraLines = <<>>,
                      !.pending = FALSE ]
           @@ [opened |-> TRUE, readErr |-> FALSE,
               sigSave |-> "skipped", seekErr |-> "seekSet"]
      ELSE IF fault = "seekPos" /\ r.scanned
      THEN ( IF t.pos1 = 0
             THEN r
             ELSE [ r EXCEPT !.from = t.len, !.lastPos = t.scanEnd.lastPos,
                             !.notifies = n1, !.panicked = FALSE,
                             !.messages = t.scanEnd.messages,
                             !.discarded = t.scanEnd.discarded,
                             !.extraLines = t.scanEnd.extraLines,
                             !.pending = t.scanEnd.pending ] )
           @@ [opened |-> TRUE, readErr |-> FALSE,
               sigSave |-> sigSave, seekErr |-> "seekPos"]
      ELSE IF fault = "read" /\ r.scanned
      THEN [ r EXCEPT !.lastPos = t.pos1,
                      !.notifies = n1,
                      !.panicked = FALSE, !.scanned = FALSE,
                      !.messages = <<>>, !.discarded = 0,
                      !.extraLines = <<>>, !.pending = FALSE ]
           @@ [opened |-> TRUE, readErr |-> TRUE,
               sigSave |-> sigSave, seekErr |-> "none"]
      ELSE r @@ [opened |-> TRUE, readErr |-> FALSE,
                 sigSave |-> sigSave, seekErr |-> "none"]

\* A read that fails during the scan of the archive inside handleLogRoll.
ArchiveFaults == {"readRoll"}

ArchiveFailed(t, fault) == fault = "readRoll" /\ t.rewind /\ t.match # 0

\* The scan of the archive under the fault: when it ends in an error, scan
\* returns before it hands over a batch and before it moves lastPos;
\* handleLogRoll has no error to return and runSource goes on.
ArchiveFault(t, fault) ==
  IF ArchiveFailed(t, fault)
  THEN [t EXCEPT !.roll = <<>>, !.rollPos = t.pos0]
  ELSE t

\* The file handles of a poll: rawHandle (numbered 0) is the handle of the
\* watched file, k the handle of the k-th path that handleLogRoll's Glob
\* returned.  runSource
\* defers raw.Close() once os.Open has succeeded, so raw is closed however
\* runSource is left.  handleLogRoll opens the candidates in order up to
\* the first whose signature matches; it closes each that does not match
\* inside the loop, and the match after its scan: a panic of a sink during
\* that scan passes the Close by.
rawHandle == 0

HandlesRawAtEnd(t, res) ==
  LET tried == IF res.rewind THEN 1..t.candidates ELSE {}
  IN  [ opened |-> (IF res.opened THEN {rawHandle} ELSE {}) \cup tried,
        closed |-> (IF res.opened /\ res.scanned THEN {rawHandle} ELSE {})
                   \cup (tried \ {res.match})
                   \cup (IF res.rewind /\ res.match # 0
                            /\ ~(res.panicked /\ ~res.scanned)
                         THEN {res.match} ELSE {}) ]

Handles(t, res) ==
  LET tried == IF res.rewind THEN 1..t.candidates ELSE {}
  IN  [ opened |-> (IF res.opened THEN {rawHandle} ELSE {}) \cup tried,
        closed |-> (IF res.opened THEN {rawHandle} ELSE {})
                   \cup (tried \ {res.match})
                   \cup (IF res.rewind /\ res.match # 0
                            /\ ~(res.panicked /\ ~res.scanned)
                         THEN {res.match} ELSE {}) ]

\* The calls of a poll in the order the goroutine of Run makes them.
\* NotifyAllRelayers calls value.Send(messages) for one receiver after the
\* other, and each call returns before the next is made, or panics.
Enter(op, what) == [ev |-> "enter", op |-> op, what |-> what]

Return(op, what) == [ev |-> "return", op |-> op, what |-> what]

SendEventsConcurrent(n) ==
  [k \in 1..Len(n.called) |-> Enter("Send", n.called[k])]
    \o [k \in 1..Len(n.called) |-> Return("Send", n.called[k])]

SendEvents(n) ==
  Flatten([k \in 1..Len(n.called) |->
             IF k = Len(n.called) /\ n.panicked
             THEN << Enter("Send", n.called[k]) >>
             ELSE << Enter("Send", n.called[k]),
                     Return("Send", n.called[k]) >>])

\* scan reads and parses the file, then calls NotifyAllRelayers if it has a
\* batch, then returns: ns holds the call of NotifyAllRelayers, if any.
ScanEvents(what, ns) ==
  << Enter("scan", what) >>
    \o (IF ns = <<>> THEN << Return("scan", what) >>
        ELSE SendEvents(ns[1])
               \o (IF ns[1].panicked THEN <<>>
                   ELSE << Return("scan", what) >>))

\* runSource: the scan of the matching archive inside handleLogRoll, then
\* the scan of the watched file.
Events(t, res) ==
  LET n1 == IF res.rewind /\ t.roll # <<>> THEN <<res.notifies[1]>>
            ELSE <<>>
      n2 == SubSeq(res.notifies, Len(n1) + 1, Len(res.notifies))
  IN  (IF res.rewind /\ res.match # 0 THEN ScanEvents("archive", n1)
       ELSE <<>>)
        \o (IF res.scanned \/ res.readErr THEN ScanEvents("watched", n2)
            ELSE <<>>)

\* The batch of the watched file that a poll under the fault can hand to
\* NotifyAllRelayers, if the archive's batch did not end it.
Relayed(t, fault) ==
  IF ~t.short /\ ( IF fault = "seekSet" THEN ~t.rewind
                   ELSE IF fault = "seekPos" THEN t.pos1 = 0
                   ELSE fault = "none" )
  THEN t.scan.messages ELSE <<>>

\* The orders of the map, and the sets of endpoints whose POSTs fail, that
\* make a difference to the relaying of messages: one of each when there
\* is nothing to relay.
OrdersFor(rcv, messages) ==
  IF messages = <<>> THEN {<<>>} ELSE Orders(rcv)

Down(rcv, messages) ==
  IF messages = <<>> THEN {{}} ELSE SUBSET rcv

\* commonErrorLog: a count per kind of error.
commonErrors == {"fileOpen", "signatureSave"}
NoErrors == [e \in commonErrors |-> 0]

\* a & b on unsigned integers.
RECURSIVE BitAnd(_, _)
BitAnd(a, b) ==
  IF a = 0 \/ b = 0 THEN 0
  ELSE (a % 2) * (b % 2) + 2 * BitAnd(a \div 2, b \div 2)

\* A tick that reports every occurrence.
TickAlways(n, max) ==
  LET m == IF n < max THEN n + 1 ELSE n
  IN  [count |-> m, log |-> TRUE]

\* commonErrorLog.tick on a count n: the count is incremented, and the
\* error is to be logged when (count-1) & count is 0.  The count, a uint64
\* in the program, is followed up to max and stays there.
Tick(n, max) ==
  LET m == IF n < max THEN n + 1 ELSE n
  IN  [count |-> m, log |-> BitAnd(m - 1, m) = 0]

\* Counts in which a successful os.Open leaves fileOpen as it was.
ErrorsAfterNoReset(res, errs, max) ==
  LET open == Tick(errs.fileOpen, max)
      sig  == Tick(errs.signatureSave, max)
  IN  [ errors |->
          [ fileOpen      |-> IF res.opened THEN errs.fileOpen
                              ELSE open.count,
            signatureSave |-> IF res.sigSave = "failed" THEN sig.count
                              ELSE IF res.sigSave = "saved" THEN 0
                              ELSE errs.signatureSave ],
        logged |->
          { e \in commonErrors :
              IF e = "fileOpen" THEN ~res.opened /\ open.log
              ELSE res.sigSave = "failed" /\ sig.log } ]

\* The counts of a source after the runSource with the outcome res, and the
\* kinds of error its meta-log messages report: fileOpen ticks when os.Open
\* fails and is reset when it succeeds; signatureSave ticks when
\* saveFileSignature fails and is reset when it succeeds.
ErrorsAfter(res, errs, max) ==
  LET open == Tick(errs.fileOpen, max)
      sig  == Tick(errs.signatureSave, max)
  IN  [ errors |->
          [ fileOpen      |-> IF res.opened THEN 0 ELSE open.count,
            signatureSave |-> IF res.sigSave = "failed" THEN sig.count
                              ELSE IF res.sigSave = "saved" THEN 0
                              ELSE errs.signatureSave ],
        logged |->
          { e \in commonErrors :
              IF e = "fileOpen" THEN ~res.opened /\ open.log
              ELSE res.sigSave = "failed" /\ sig.log } ]

\* ----------------------------------------------------------- state store
\* The state file is a sequence of chunks: the opening of the document, one
\* entry per source in the order of the file names (MarshalIndent sorts the
\* keys of a map), the closing.  A file cut short holds a proper prefix.
Chunk(t, name, fl, lp) ==
  [t |-> t, Filename |-> name, FirstLine |-> fl, LastPos |-> lp]
DocOpen == Chunk("open", "", <<>>, 0)
DocClose == Chunk("close", "", <<>>, 0)

\* The sources of the configuration, in registration order (which is also
\* the order of their file names).
Sources ==
  << [Name |-> "auth",   Filename |-> "imqsauth.log"],
     [Name |-> "www_js", Filename |-> "www-js.log"] >>
SrcIdx == 1..Len(Sources)

\* A document that leaves out the entries of the sources that have read
\* nothing yet.
MarshalStarted(lp, fl) ==
  <<DocOpen>>
  \o SelectSeq([i \in SrcIdx |->
                  Chunk("entry", Sources[i].Filename, fl[i], lp[i])],
               LAMBDA c : c.LastPos # 0)
  \o <<DocClose>>

\* json.MarshalIndent of the stateJson built by saveState.
Marshal(lp, fl) ==
  <<DocOpen>>
  \o [i \in SrcIdx |-> Chunk("entry", Sources[i].Filename, fl[i], lp[i])]
  \o <<DocClose>>

\* Whether json.Unmarshal accepts the bytes of the state file.
UnmarshalOk(raw) ==
  /\ Len(raw) >= 2
  /\ raw[1] = DocOpen
  /\ raw[Len(raw)] = DocClose
  /\ \A k \in 2..(Len(raw) - 1) : raw[k].t = "entry"

\* jstate.Sources[name]: the entries of the document for file name (a
\* sequence of at most one).
Entry(raw, name) ==
  SelectSeq(raw, LAMBDA c : c.t = "entry" /\ c.Filename = name)

\* A loadState that restores nothing.
LoadStateNothing(raw, lp, fl) == [lastPos |-> lp, firstLine |-> fl]

\* A loadState that gives the k-th entry of the document to the k-th
\* source, whatever file name the entry carries.
LoadStatePositional(raw, lp, fl) ==
  IF UnmarshalOk(raw)
  THEN [ lastPos   |-> [i \in SrcIdx |->
                          IF i + 1 < Len(raw) THEN raw[i + 1].LastPos
                          ELSE lp[i]],
         firstLine |-> [i \in SrcIdx |->
                          IF i + 1 < Len(raw) THEN raw[i + 1].FirstLine
                          ELSE fl[i]] ]
  ELSE [lastPos |-> lp, firstLine |-> fl]

\* loadState: the lastPos and firstLine of the sources after it, from those
\* before it and the bytes of the state file.
LoadStateResult(raw, lp, fl) ==
  IF UnmarshalOk(raw)
  THEN [ lastPos   |-> [i \in SrcIdx |->
                          LET e == Entry(raw, Sources[i].Filename)
                          IN  IF e # <<>> THEN e[1].LastPos ELSE lp[i]],
         firstLine |-> [i \in SrcIdx |->
                          LET e == Entry(raw, Sources[i].Filename)
                          IN  IF e # <<>> THEN e[1].FirstLine ELSE fl[i]] ]
  ELSE [lastPos |-> lp, firstLine |-> fl]

\* ---------------------------------------------------------- configuration
\* The configuration document is a sequence of services, each a sequence of
\* logs [name, filename, parser].
parsersByName == {"go", "spd", "albion", "router", "java", "yellowfin"}

\* The parsers a log of the explored documents names: one that
\* parsersByName holds and one that it does not.
ConfigParsers == {"go", "nope"}

ConfigLogs ==
  { [name |-> Sources[i].Name, filename |-> Sources[i].Filename,
     parser |-> p] : i \in SrcIdx, p \in ConfigParsers }

SeqsUpTo(S, n) == UNION { [1..k -> S] : k \in 0..n }

Configs == SeqsUpTo(SeqsUpTo(ConfigLogs, MaxLogs), MaxServices)

\* The document that makes Sources the sources of the scraper.
SourcesConfig ==
  << [i \in SrcIdx |-> [name |-> Sources[i].Name,
                        filename |-> Sources[i].Filename,
                        parser |-> "go"]] >>

\* NewLogSource.  The parser is not kept: every line of the model is in the
\* format of GoLogParser.
NewLogSource(name, filename, parser) ==
  [Name |-> name, Filename |-> filename]

Reverse(seq) == [i \in DOMAIN seq |-> seq[Len(seq) + 1 - i]]

\* A LogSources that registers the sources last to first.
LogSourcesReversed(cfg) ==
  LET logs == Flatten(cfg)
      ok   == SelectSeq(logs, LAMBDA l : l.parser \in parsersByName)
      bad  == SelectSeq(logs, LAMBDA l : l.parser \notin parsersByName)
  IN  [ sources |-> Reverse([i \in DOMAIN ok |->
                      NewLogSource(ok[i].name, ok[i].filename,
                                   ok[i].parser)]),
        errs    |-> [i \in DOMAIN bad |-> bad[i].name] ]

\* ServiceRegistryConfig.LogSources: over the services and their logs in
\* the order of the document, a source for every log whose parser is in
\* parsersByName, an error for every other log.
LogSources(cfg) ==
  LET logs == Flatten(cfg)
      ok   == SelectSeq(logs, LAMBDA l : l.parser \in parsersByName)
      bad  == SelectSeq(logs, LAMBDA l : l.parser \notin parsersByName)
  IN  [ sources |-> [i \in DOMAIN ok |->
                      NewLogSource(ok[i].name, ok[i].filename,
                                   ok[i].parser)],
        errs    |-> [i \in DOMAIN bad |-> bad[i].name] ]

\* LoadServiceRegistryConfig fails on a document without services.
LoadServiceRegistryConfigOk(cfg) == Len(cfg) > 0

\* Scraper.LoadConfiguration: the sources of the document are appended to
\* s.Sources unless the document could not be loaded or LogSources
\* reported an error; then s.Sources is left alone and an error is returned.
LoadConfigurationResult(cfg, sources) ==
  IF ~LoadServiceRegistryConfigOk(cfg) \/ LogSources(cfg).errs # <<>>
  THEN [err |-> TRUE, sources |-> sources]
  ELSE [err |-> FALSE, sources |-> sources \o LogSources(cfg).sources]

\* ------------------------------------------------------------- host name
\* Strings are sequences of characters.  The file c:/imqsbin/conf/hostname
\* is absent (ioutil.ReadFile fails) or holds a string.
NoHostFile == [exists |-> FALSE, content |-> <<>>]
HostFile(str) == [exists |-> TRUE, content |-> str]

Http == << "h", "t", "t", "p", ":", "/", "/" >>
Https == << "h", "t", "t", "p", "s", ":", "/", "/" >>

\* strings.Index(line, prefix) == 0
IndexIsZero(line, prefix) ==
  /\ Len(line) >= Len(prefix)
  /\ SubSeq(line, 1, Len(prefix)) = prefix

\* getHostname: the content of the file without a leading scheme; the
\* empty string when the file cannot be read or is empty.
getHostname(hfile) ==
  IF hfile.exists /\ Len(hfile.content) # 0
  THEN LET line == hfile.content
       IN  IF IndexIsZero(line, Http) THEN SubSeq(line, 8, Len(line))
           ELSE IF IndexIsZero(line, Https) THEN SubSeq(line, 9, Len(line))
           ELSE line
  ELSE <<>>

\* os.Hostname() on the machine.
ownhostname == << "s", "r", "v" >>

\* The contents of the host name file that are explored: one of the two
\* schemes, a string that falls short of one, or nothing, before up to
\* MaxHostLen characters.
HostPrefixes ==
  { <<>>, Http, Https, SubSeq(Http, 1, 6), <<"x">> \o Http }

HostTails ==
  UNION { [1..n -> {"a", "/"}] : n \in 0..MaxHostLen }

HostFiles ==
  { NoHostFile }
    \cup { HostFile(p \o t) : p \in HostPrefixes, t \in HostTails }

\* toMessageArray: the host names that every record of a batch is given.
WithHost(messages, hostname, own) ==
  [ i \in DOMAIN messages |->
      messages[i] @@ [Host |-> hostname, OwnHostname |-> own] ]

\* ------------------------------------------------------- router records
\* A line of the router's access log, as routerLogRegex splits it: eight
\* fields without blanks, of which the seventh is the count of bytes.
RouterLine(bytes) ==
  [ ClientIP |-> "10.0.0.1", Time |-> "10/Oct/2016:13:55:36 +0200",
    Request |-> "GET /a HTTP/1.1", ResponseCode |-> "200",
    ResponseBytes |-> bytes, ResponseDuration |-> "3.825" ]

\* RouterLogParser: the captures are copied into the LogMsg as they are.
RouterLogParser(line) ==
  [ ClientIP |-> line.ClientIP, Request |-> line.Request,
    ResponseCode |-> line.ResponseCode,
    ResponseBytes |-> line.ResponseBytes,
    ResponseDuration |-> line.ResponseDuration ]

\* The value of a character as a digit (36: not a digit in any base).
DigitValue(c) ==
  CASE c = "0" -> 0 [] c = "1" -> 1 [] c = "2" -> 2 [] c = "3" -> 3
    [] c = "4" -> 4 [] c = "5" -> 5 [] c = "6" -> 6 [] c = "7" -> 7
    [] c = "8" -> 8 [] c = "9" -> 9 [] c = "a" -> 10 [] c = "b" -> 11
    [] c = "c" -> 12 [] c = "d" -> 13 [] c = "e" -> 14 [] c = "f" -> 15
    [] OTHER -> 36

\* The unsigned part of strconv.ParseInt: the digits of str in the base,
\* most significant first.
RECURSIVE ParseUint(_, _, _)
ParseUint(str, base, acc) ==
  IF str = <<>> THEN acc
  ELSE ParseUint(Tail(str), base, acc * base + DigitValue(Head(str)))

\* strconv.ParseInt(str, base, 64): value and whether err is not nil.  On a
\* syntax error the value is 0.  The numerals explored have at most
\* MaxDigits digits, far from the range of 64 bits.
ParseInt(str, base) ==
  LET neg    == str # <<>> /\ Head(str) = "-"
      digits == IF str # <<>> /\ Head(str) \in {"-", "+"} THEN Tail(str)
                ELSE str
      syntax == \/ digits = <<>>
                \/ \E k \in DOMAIN digits : DigitValue(digits[k]) >= base
      un     == ParseUint(digits, base, 0)
  IN  IF syntax THEN [value |-> 0, err |-> TRUE]
      ELSE [value |-> IF neg THEN -un ELSE un, err |-> FALSE]

\* toLogglyJson: the fields of the JSON that come from the router's line;
\* the error of ParseInt is dropped.
toLogglyJson(m) ==
  [ client_ip |-> m.ClientIP, request |-> m.Request,
    response_code |-> m.ResponseCode,
    response_bytes |-> ParseInt(m.ResponseBytes, 16).value ]

\* The counts of bytes that are explored: up to MaxDigits characters.
ByteChars == {"0", "1", "6", "a", "-"}

ByteFields == UNION { [1..n -> ByteChars] : n \in 1..MaxDigits }

NoRouterLine == RouterLine(<<>>)
NoJson == [response_bytes |-> 0]

\* ----------------------------------------------------------------- state
VARIABLES
  files,       \* the watched file of each source
  archives,    \* the archives of each source, in the order of their names
  nextId,      \* the identity of the next line a writer starts
  pc,          \* where the process is: start, tail, save, write, sleep, panic
  cur,         \* the source Run is about to tail
  lastPos,     \* LogSource.lastPos of each source
  firstLine,   \* LogSource.firstLine of each source (<<>>: nil)
  errors,      \* LogSource.errors of each source
  receivers,   \* the keys of the map receivers
  config,      \* the configuration document
  loaded,      \* Scraper.Sources
  hostFile,    \* the file c:/imqsbin/conf/hostname
  Hostname,    \* Scraper.Hostname
  routerLine,  \* a line of the router's access log
  logglyJson,  \* the JSON that LogglyReceiver.Send encodes for that line
  shutdown,    \* the process has been asked to stop
  stateFile,   \* the bytes of the state file (<<>>: missing or empty)
  saveDocs,    \* while saveState writes: <<document before, document written>>
  sent,        \* history: the lines (ids) of the records handed to
               \* NotifyAllRelayers so far, per source
  failed,      \* history: the <<sink, line>> of the records whose POST
               \* failed so far (kept by RunSourceTracked)
  persisted,   \* history: the lastPos of each source in the last document
               \* that saveState wrote in full
  lastPoll,    \* history: the outcome of the runSource that has just
               \* returned (NoPoll after any other step)
  firstCycle,  \* history: no sleep since loadState
  rot,         \* history: how the rotations of each source met the polls
  dirty,       \* history: the file was written since the source's last poll
  saved,       \* history: the state file holds a whole document that was
               \* written after the source's last poll
  rotations,   \* history: the number of rotations
  partials,    \* history: the number of lines that were written in two steps
  restarts     \* history: the number of starts of the process after the first

vars == << files, archives, nextId, pc, cur, lastPos, firstLine, errors,
           receivers, config, loaded, hostFile, Hostname, routerLine,
           logglyJson, shutdown,
           stateFile, saveDocs, sent, failed, persisted, lastPoll,
           firstCycle, rot, dirty, saved, rotations, partials, restarts >>

envVars == << files, archives, nextId, rot, dirty, rotations, partials >>
pastVars == << sent, failed, persisted >>
memVars == << pc, cur, lastPos, firstLine, errors, firstCycle >>
bootVars == << receivers, config, loaded, hostFile, Hostname, routerLine,
              logglyJson, shutdown >>

NoPoll ==
  [ src |-> 0, rewind |-> FALSE, match |-> 0, pos0 |-> 0, sig0 |-> <<>>,
    from |-> 0, source |-> "", lastPos |-> 0, firstLine |-> <<>>,
    notifies |-> <<>>, panicked |-> FALSE, scanned |-> FALSE,
    messages |-> <<>>, discarded |-> 0, extraLines |-> <<>>,
    pending |-> FALSE, fresh |-> FALSE, saved |-> FALSE, dirty |-> FALSE,
    opened |-> FALSE, readErr |-> FALSE, sigSave |-> "skipped",
    seekErr |-> "none", rollErr |-> FALSE,
    handles |-> [opened |-> {}, closed |-> {}], events |-> <<>>,
    errors0 |-> NoErrors, logged |-> {} ]

\* NewScraper and InitialiseRelayers, with the files fs in place: the
\* Loggly receiver is always registered, the Datadog receiver when
\* IMQS_MONITOR is set and the agent's configuration is found.
NewScraper(fs, n) ==
  /\ files = fs
  /\ archives = [s \in SrcIdx |-> <<>>]
  /\ nextId = n
  /\ cur = 1
  /\ lastPos = [s \in SrcIdx |-> 0]
  /\ firstLine = [s \in SrcIdx |-> <<>>]
  /\ errors = [s \in SrcIdx |-> NoErrors]
  /\ receivers \in {{"Loggly"}, {"Loggly", "Datadog"}}
  /\ hostFile = NoHostFile
  /\ Hostname = getHostname(hostFile)
  /\ routerLine = NoRouterLine
  /\ logglyJson = NoJson
  /\ shutdown = FALSE
  /\ stateFile = <<>>
  /\ saveDocs = <<>>
  /\ sent = [s \in SrcIdx |-> <<>>]
  /\ failed = {}
  /\ persisted = [s \in SrcIdx |-> 0]
  /\ lastPoll = NoPoll
  /\ firstCycle = TRUE
  /\ rot = [s \in SrcIdx |-> "none"]
  /\ dirty = [s \in SrcIdx |-> FALSE]
  /\ saved = [s \in SrcIdx |-> FALSE]
  /\ rotations = 0
  /\ partials = 0
  /\ restarts = 0

\* The process at the call of Run, with the files fs in place and the
\* configuration that registers Sources loaded.
InitWith(fs, n) ==
  /\ NewScraper(fs, n)
  /\ pc = "start"
  /\ config = SourcesConfig
  /\ loaded = Sources

\* The process starts before anything is written.
Init == InitWith([s \in SrcIdx |-> <<>>], 1)

\* The files of k complete lines.
FilesOfLen(k) ==
  { [i \in 1..k |-> [id |-> i, w |-> kinds[i].n + 1] @@ kinds[i]] :
      kinds \in [1..k -> LineKinds] }

\* The process starts with one source's file holding up to MaxScanLines
\* complete lines.
InitScan ==
  \E k \in 1..MaxScanLines : \E f \in FilesOfLen(k) : \E s \in SrcIdx :
    InitWith([x \in SrcIdx |-> IF x = s THEN f ELSE <<>>], k + 1)

\* ----------------------------------------------------------- the writers
Complete(f) == IF Len(f) = 0 THEN TRUE ELSE f[Len(f)].w = f[Len(f)].n + 1

\* The places where a line can be cut by a write that does not end it:
\* inside the header or inside the message of a line in the dialect.
Cuts(kind) == IF kind.p THEN {HdrLen - 16, HdrLen + 2} ELSE {4}

\* A writer appends a complete line to the watched file of source s (max:
\* the number of lines written in a behaviour).
AppendLine(s, max) ==
  /\ nextId <= max
  /\ Complete(files[s])
  /\ \E kind \in LineKinds :
       files' = [files EXCEPT ![s] =
                   Append(@, [id |-> nextId, w |-> kind.n + 1] @@ kind)]
  /\ nextId' = nextId + 1
  /\ dirty' = [dirty EXCEPT ![s] = TRUE]
  /\ UNCHANGED << archives, rot, rotations, partials, memVars, bootVars,
                  stateFile, saveDocs, pastVars, saved, restarts >>
  /\ lastPoll' = NoPoll

\* A writer appends the first bytes of a line.
AppendPartial(s, max, maxPartials) ==
  /\ nextId <= max
  /\ partials < maxPartials
  /\ Complete(files[s])
  /\ \E kind \in LineKinds : \E w \in Cuts(kind) :
       files' = [files EXCEPT ![s] =
                   Append(@, [id |-> nextId, w |-> w] @@ kind)]
  /\ nextId' = nextId + 1
  /\ partials' = partials + 1
  /\ dirty' = [dirty EXCEPT ![s] = TRUE]
  /\ UNCHANGED << archives, rot, rotations, memVars, bootVars,
                  stateFile, saveDocs, pastVars, saved, restarts >>
  /\ lastPoll' = NoPoll

\* A writer appends the rest of the line it began.
CompleteLine(s) ==
  /\ ~Complete(files[s])
  /\ files' = [files EXCEPT ![s][Len(files[s])].w = files[s][Len(files[s])].n + 1]
  /\ dirty' = [dirty EXCEPT ![s] = TRUE]
  /\ UNCHANGED << archives, nextId, rot, rotations, partials, memVars,
                  bootVars, stateFile, saveDocs, pastVars, saved, restarts >>
  /\ lastPoll' = NoPoll

\* The writer rolls the log of source s: the watched file is renamed to an
\* archive (whose name sorts after those of the older archives) and a new,
\* empty file is created under the watched name.  rot becomes "pending"
\* until the next poll of s when the archive starts with the firstLine the
\* source remembers, and "unanchored" for good when it does not.
Rotate(s, maxRotations) ==
  /\ rotations < maxRotations
  /\ files[s] # <<>>
  /\ Complete(files[s])
  /\ archives' = [archives EXCEPT ![s] = Append(@, files[s])]
  /\ files' = [files EXCEPT ![s] = <<>>]
  /\ rot' = [rot EXCEPT ![s] =
               IF @ = "unanchored" \/ firstLine[s] = <<>>
                  \/ firstLine[s] # ReadFileSignature(files[s])
               THEN "unanchored" ELSE "pending"]
  /\ rotations' = rotations + 1
  /\ dirty' = [dirty EXCEPT ![s] = TRUE]
  /\ UNCHANGED << nextId, partials, memVars, bootVars, stateFile, saveDocs,
                  pastVars, saved, restarts >>
  /\ lastPoll' = NoPoll

\* The writer rolls the log of source s and the archive is not kept under a
\* name that the wildcard of handleLogRoll matches (it is compressed, moved
\* or removed): a new, empty file stands under the watched name.
RotateAway(s, maxRotations) ==
  /\ rotations < maxRotations
  /\ files[s] # <<>>
  /\ Complete(files[s])
  /\ files' = [files EXCEPT ![s] = <<>>]
  /\ rot' = [rot EXCEPT ![s] = "unanchored"]
  /\ rotations' = rotations + 1
  /\ dirty' = [dirty EXCEPT ![s] = TRUE]
  /\ UNCHANGED << archives, nextId, partials, memVars, bootVars, stateFile,
                  saveDocs, pastVars, saved, restarts >>
  /\ lastPoll' = NoPoll

\* The watched file of source s is cut in place after one of its lines: it
\* keeps its name and its first lines and loses the rest.
Truncate(s, maxRotations) ==
  /\ rotations < maxRotations
  /\ Complete(files[s])
  /\ \E k \in 1..(Len(files[s]) - 1) :
       files' = [files EXCEPT ![s] = SubSeq(@, 1, k)]
  /\ rotations' = rotations + 1
  /\ dirty' = [dirty EXCEPT ![s] = TRUE]
  /\ UNCHANGED << archives, nextId, rot, partials, memVars, bootVars,
                  stateFile, saveDocs, pastVars, saved, restarts >>
  /\ lastPoll' = NoPoll

\* ------------------------------------------------------------ the process
\* filepath.Glob of <base>*<ext>: the archives, then the watched file
\* itself, whose name the pattern matches too (the names of the archives
\* sort before it).
Glob(s) == archives[s] \o <<files[s]>>

Batches(notifies) == [i \in DOMAIN notifies |-> notifies[i].batch]

Ids(messages) == [i \in DOMAIN messages |-> messages[i].id]

\* main, before Run: LoadConfiguration, and log.Fatal when it returns an
\* error.  The tailing is followed for the document that registers Sources;
\* with any other set of sources the process is left at "loaded".
LoadConfiguration ==
  /\ pc = "config"
  /\ LET res == LoadConfigurationResult(config, loaded)
     IN  /\ loaded' = res.sources
         /\ pc' = IF res.err THEN "exit"
                  ELSE IF res.sources = Sources THEN "start" ELSE "loaded"
  /\ UNCHANGED << envVars, cur, lastPos, firstLine, errors, firstCycle,
                  receivers, config, hostFile, Hostname, routerLine,
                  logglyJson, shutdown, stateFile, saveDocs, pastVars,
                  saved, restarts >>
  /\ lastPoll' = NoPoll

\* Run, at the head of the program: loadState.
LoadState ==
  /\ pc = "start"
  /\ LET res == LoadStateResult(stateFile, lastPos, firstLine)
     IN  /\ lastPos' = res.lastPos
         /\ firstLine' = res.firstLine
  /\ pc' = "tail"
  /\ cur' = 1
  /\ firstCycle' = TRUE
  /\ saveDocs' = <<>>
  /\ UNCHANGED << envVars, errors, bootVars, stateFile, pastVars, saved,
                  restarts >>
  /\ lastPoll' = NoPoll

\* The sources whose files the writers of the model write.
Written == {1}

\* The records of the POSTs that failed, with the sink of each.
FailedPosts(notifies) ==
  LET posts == Flatten([i \in DOMAIN notifies |-> notifies[i].posts])
  IN  UNION { { <<posts[k].sink, posts[k].body[j].id>> :
                  j \in DOMAIN posts[k].body } :
              k \in { i \in DOMAIN posts : posts[i].err } }

\* Run, in its loop: runSource on the next source, with the fan-out of the
\* batches it produces, under one of the faults when the source is one
\* the writers write; the error counts are followed up to maxTicks, and
\* the history of the failed POSTs is kept when track is set.
RunSourceTracking(faults, maxTicks, track) ==
  /\ pc = "tail"
  /\ LET s  == cur
         t0 == Tailing(files[s], Glob(s), lastPos[s], firstLine[s],
                       Sources[s].Name)
     IN  \E fault \in IF s \in Written THEN faults ELSE {"none"} :
         LET t == ArchiveFault(t0, fault) IN
         \E o1 \in OrdersFor(receivers, t.roll),
            o2 \in OrdersFor(receivers, Relayed(t, fault)),
            down \in Down(receivers, t.roll \o Relayed(t, fault)) :
           LET res == RunSourceFault(t, o1, o2, down, fault)
               err == ErrorsAfter(res, errors[s], maxTicks)
           IN  /\ lastPos' = [lastPos EXCEPT ![s] = res.lastPos]
               /\ firstLine' = [firstLine EXCEPT ![s] = res.firstLine]
               /\ errors' = [errors EXCEPT ![s] = err.errors]
               /\ sent' = [sent EXCEPT ![s] =
                             @ \o Ids(Flatten(Batches(res.notifies)))]
               /\ failed' = IF track
                             THEN failed \cup FailedPosts(res.notifies)
                             ELSE failed
               /\ lastPoll' = res @@
                    [ src |-> s, fresh |-> firstCycle /\ restarts > 0,
                      saved |-> saved[s], dirty |-> dirty[s],
                      errors0 |-> errors[s], logged |-> err.logged,
                      rollErr |-> ArchiveFailed(t0, fault),
                      handles |-> Handles(t, res),
                      events |-> Events(t, res) ]
               /\ IF res.panicked THEN pc' = "panic" /\ cur' = cur
                  ELSE IF cur < Len(Sources)
                  THEN pc' = "tail" /\ cur' = cur + 1
                  ELSE pc' = "save" /\ cur' = 1
  /\ rot' = [rot EXCEPT ![cur] = IF @ = "pending" THEN "none" ELSE @]
  /\ dirty' = [dirty EXCEPT ![cur] = FALSE]
  /\ saved' = [saved EXCEPT ![cur] = FALSE]
  /\ UNCHANGED << files, archives, nextId, rotations, partials, bootVars,
                  stateFile, saveDocs, persisted, firstCycle, restarts >>

RunSourceWith(faults, maxTicks) ==
  RunSourceTracking(faults, maxTicks, FALSE)

\* runSource while the operating system serves every call.
RunSource == RunSourceWith({"none"}, 1)

\* The same, with the history of the failed POSTs kept.
RunSourceTracked == RunSourceTracking({"none"}, 1, TRUE)

\* saveState, first half: the document is marshalled and ioutil.WriteFile
\* opens the state file with O_TRUNC.
SaveStateTruncate ==
  /\ pc = "save"
  /\ saveDocs' = <<stateFile, Marshal(lastPos, firstLine)>>
  /\ stateFile' = <<>>
  /\ pc' = "write"
  /\ saved' = [s \in SrcIdx |-> FALSE]
  /\ UNCHANGED << envVars, cur, lastPos, firstLine, errors, firstCycle,
                  bootVars,
                  pastVars, restarts >>
  /\ lastPoll' = NoPoll

\* saveState, second half: ioutil.WriteFile writes the document and closes
\* the file.
SaveStateWrite ==
  /\ pc = "write"
  /\ stateFile' = saveDocs[2]
  /\ saveDocs' = <<>>
  /\ pc' = "sleep"
  /\ saved' = [s \in SrcIdx |-> TRUE]
  /\ UNCHANGED << envVars, cur, lastPos, firstLine, errors, firstCycle,
                  bootVars,
                  sent, failed, restarts >>
  /\ persisted' = lastPos
  /\ lastPoll' = NoPoll

\* Run, at the end of its loop: time.Sleep(PollInterval).
Sleep ==
  /\ pc = "sleep"
  /\ pc' = "tail"
  /\ cur' = 1
  /\ firstCycle' = FALSE
  /\ UNCHANGED << envVars, lastPos, firstLine, errors, bootVars, stateFile,
                  saveDocs, pastVars, saved, restarts >>
  /\ lastPoll' = NoPoll

\* The process ends where it is (it is killed, the machine goes down, or it
\* has panicked) and is started again: main builds a new Scraper with new
\* sources.  A process that ends while WriteFile writes leaves the bytes
\* written so far.
Restart(maxRestarts) ==
  /\ restarts < maxRestarts
  /\ pc # "start"
  /\ IF pc = "write"
     THEN /\ \E k \in 0..Len(saveDocs[2]) :
               stateFile' = SubSeq(saveDocs[2], 1, k)
          /\ UNCHANGED saveDocs
     ELSE /\ UNCHANGED stateFile
          /\ saveDocs' = <<>>
  /\ pc' = "start"
  /\ cur' = 1
  /\ lastPos' = [s \in SrcIdx |-> 0]
  /\ firstLine' = [s \in SrcIdx |-> <<>>]
  /\ errors' = [s \in SrcIdx |-> NoErrors]
  /\ lastPoll' = NoPoll
  /\ restarts' = restarts + 1
  /\ UNCHANGED << envVars, bootVars, pastVars, saved, firstCycle >>

Process ==
  \/ LoadState
  \/ RunSource
  \/ SaveStateTruncate
  \/ SaveStateWrite
  \/ Sleep

\* ------------------------------------------------------- specifications
\* One start of the process on files that are in place and are not written
\* while it runs.
NextScan == Process

SpecScan == InitScan /\ [][NextScan]_vars

\* The process and a writer that appends lines, whole or in two writes.
TailWriter ==
  \/ \E s \in Written : AppendLine(s, MaxTailLines)
  \/ \E s \in Written : AppendPartial(s, MaxTailLines, MaxPartials)
  \/ \E s \in Written : CompleteLine(s)

NextTail == TailWriter \/ Process

SpecTail == Init /\ [][NextTail]_vars

\* The process and a writer that appends whole lines and rolls the log.
RollWriter ==
  \/ \E s \in Written : AppendLine(s, MaxRollLines)
  \/ \E s \in Written : Rotate(s, MaxRotations)

NextRoll == RollWriter \/ Process

SpecRoll == Init /\ [][NextRoll]_vars

\* The process while the writer appends lines and the watched file shrinks
\* with no archive for handleLogRoll to find: the file is rolled with the
\* archive out of the glob's reach, or cut in place.
RewindWriter ==
  \/ \E s \in Written : AppendLine(s, MaxRewindLines)
  \/ \E s \in Written : RotateAway(s, MaxRewinds)
  \/ \E s \in Written : Truncate(s, MaxRewinds)

NextRewind == RewindWriter \/ Process

SpecRewind == Init /\ [][NextRewind]_vars

\* The process, ending and being started again, and a writer that appends
\* whole lines.
RestartWriter == \E s \in Written : AppendLine(s, MaxRestartLines)

NextRestart == RestartWriter \/ Process \/ Restart(MaxRestarts)

SpecRestart == Init /\ [][NextRestart]_vars

\* The same steps, with the history of the failed POSTs kept.
NextResend ==
  \/ RestartWriter
  \/ LoadState
  \/ RunSourceTracked
  \/ SaveStateTruncate
  \/ SaveStateWrite
  \/ Sleep
  \/ Restart(MaxRestarts)

SpecResend == Init /\ [][NextResend]_vars

\* Appends, a rotation and polls that the operating system may fail.
FaultWriter ==
  \E s \in Written :
    \/ AppendLine(s, MaxFaultLines)
    \/ Rotate(s, MaxFaultRotations)

RunSourceFaulty == RunSourceWith(Faults \cup SeekFaults, 1)

NextFault ==
  \/ FaultWriter
  \/ LoadState
  \/ RunSourceFaulty
  \/ SaveStateTruncate
  \/ SaveStateWrite
  \/ Sleep

SpecFault == Init /\ [][NextFault]_vars

\* The process while reads of the scanner can fail, in the scan of the
\* watched file and in the scan of the archive.
RunSourceReadFaulty == RunSourceWith({"none", "read"} \cup ArchiveFaults, 1)

NextReadFault ==
  \/ FaultWriter
  \/ LoadState
  \/ RunSourceReadFaulty
  \/ SaveStateTruncate
  \/ SaveStateWrite
  \/ Sleep

SpecReadFault == Init /\ [][NextReadFault]_vars

\* The process from the start of main, with any of the documents of Configs
\* and a line in the file of each source.
InitConfig ==
  /\ \E f \in FilesOfLen(2) :
       NewScraper([s \in SrcIdx |-> <<f[s]>>], 3)
  /\ pc = "config"
  /\ config \in Configs
  /\ loaded = <<>>

NextConfig == LoadConfiguration \/ Process

SpecConfig == InitConfig /\ [][NextConfig]_vars

\* Appends, a rotation and polls in which os.Open may fail, with the error
\* counts followed up to MaxTicks.
DampenWriter ==
  \E s \in Written :
    \/ AppendLine(s, MaxDampenLines)
    \/ Rotate(s, MaxDampenRotations)

RunSourceDampened == RunSourceWith({"none", "open"}, MaxTicks)

NextDampen ==
  \/ DampenWriter
  \/ LoadState
  \/ RunSourceDampened
  \/ SaveStateTruncate
  \/ SaveStateWrite
  \/ Sleep

\* The process starts with an empty file for the source that is written
\* and a file long enough for a signature for the other.
InitDampen ==
  \E f \in FilesOfLen(1) :
    /\ FileLen(f) >= SigLen
    /\ InitWith([s \in SrcIdx |-> IF s \in Written THEN <<>> ELSE f], 2)

SpecDampen == InitDampen /\ [][NextDampen]_vars

\* The process starts on a state file that an earlier process, or anyone
\* else, has left: a document with or without an entry for each configured
\* file name and for a file name that no source has, each entry that of a
\* source that has read nothing or that of one that has read the first
\* line; or such a document cut short; or no file.
StateNames == <<"other.log">> \o [i \in SrcIdx |-> Sources[i].Filename]

StateDocs(sig, len) ==
  { <<DocOpen>>
    \o Flatten([k \in DOMAIN StateNames |->
                  IF pick[k] = "none" THEN <<>>
                  ELSE IF pick[k] = "fresh"
                  THEN << Chunk("entry", StateNames[k], <<>>, 0) >>
                  ELSE << Chunk("entry", StateNames[k], sig, len) >>])
    \o <<DocClose>> :
      pick \in [DOMAIN StateNames -> {"none", "fresh", "read"}] }

StateFiles(sig, len) ==
  StateDocs(sig, len)
    \cup { SubSeq(d, 1, Len(d) - 1) : d \in StateDocs(sig, len) }
    \cup { <<>> }

InitLoad ==
  \E f \in FilesOfLen(1) :
    /\ FileLen(f) >= SigLen
    /\ files = [s \in SrcIdx |-> IF s = 1 THEN f ELSE <<>>]
    /\ stateFile \in StateFiles(ReadFileSignature(f), FileLen(f))
    /\ archives = [s \in SrcIdx |-> <<>>]
    /\ nextId = 2
    /\ pc = "start"
    /\ cur = 1
    /\ lastPos = [s \in SrcIdx |-> 0]
    /\ firstLine = [s \in SrcIdx |-> <<>>]
    /\ errors = [s \in SrcIdx |-> NoErrors]
    /\ receivers \in {{"Loggly"}, {"Loggly", "Datadog"}}
    /\ hostFile = NoHostFile
    /\ Hostname = getHostname(hostFile)
    /\ routerLine = NoRouterLine
    /\ logglyJson = NoJson
    /\ shutdown = FALSE
    /\ config = SourcesConfig
    /\ loaded = Sources
    /\ saveDocs = <<>>
    /\ sent = [s \in SrcIdx |-> <<>>]
    /\ failed = {}
    /\ persisted = [s \in SrcIdx |-> 0]
    /\ lastPoll = NoPoll
    /\ firstCycle = TRUE
    /\ rot = [s \in SrcIdx |-> "none"]
    /\ dirty = [s \in SrcIdx |-> FALSE]
    /\ saved = [s \in SrcIdx |-> FALSE]
    /\ rotations = 0
    /\ partials = 0
    /\ restarts = 0

SpecLoad == InitLoad /\ [][Process]_vars

\* main: the process starts with the host name file as it is found, one
\* line in the first source's file, and the configuration that registers
\* Sources; NewScraper is handed getHostname() and os.Hostname().
InitHost ==
  \E f \in FilesOfLen(1) :
    /\ files = [s \in SrcIdx |-> IF s = 1 THEN f ELSE <<>>]
    /\ archives = [s \in SrcIdx |-> <<>>]
    /\ nextId = 2
    /\ pc = "main"
    /\ cur = 1
    /\ lastPos = [s \in SrcIdx |-> 0]
    /\ firstLine = [s \in SrcIdx |-> <<>>]
    /\ errors = [s \in SrcIdx |-> NoErrors]
    /\ receivers = {"Loggly", "Datadog"}
    /\ hostFile \in HostFiles
    /\ Hostname = <<>>
    /\ routerLine = NoRouterLine
    /\ logglyJson = NoJson
    /\ shutdown = FALSE
    /\ config = SourcesConfig
    /\ loaded = <<>>
    /\ stateFile = <<>>
    /\ saveDocs = <<>>
    /\ sent = [s \in SrcIdx |-> <<>>]
    /\ failed = {}
    /\ persisted = [s \in SrcIdx |-> 0]
    /\ lastPoll = NoPoll
    /\ firstCycle = TRUE
    /\ rot = [s \in SrcIdx |-> "none"]
    /\ dirty = [s \in SrcIdx |-> FALSE]
    /\ saved = [s \in SrcIdx |-> FALSE]
    /\ rotations = 0
    /\ partials = 0
    /\ restarts = 0

Main ==
  /\ pc = "main"
  /\ Hostname' = getHostname(hostFile)
  /\ pc' = "config"
  /\ UNCHANGED << envVars, cur, lastPos, firstLine, errors, firstCycle,
                  receivers, config, loaded, hostFile, routerLine,
                  logglyJson, shutdown, stateFile, saveDocs, pastVars,
                  saved, restarts, lastPoll >>

NextHost == Main \/ LoadConfiguration \/ Process

SpecHost == InitHost /\ [][NextHost]_vars

\* A line of the router's access log on its way to Loggly: the poll has
\* read it, RouterLogParser parses it and LogglyReceiver.Send encodes it.
InitRouter ==
  /\ routerLine \in { RouterLine(b) : b \in ByteFields }
  /\ logglyJson = NoJson
  /\ shutdown = FALSE
  /\ pc = "router"
  /\ files = [s \in SrcIdx |-> <<>>]
  /\ archives = [s \in SrcIdx |-> <<>>]
  /\ nextId = 1
  /\ cur = 1
  /\ lastPos = [s \in SrcIdx |-> 0]
  /\ firstLine = [s \in SrcIdx |-> <<>>]
  /\ errors = [s \in SrcIdx |-> NoErrors]
  /\ receivers = {"Loggly"}
  /\ hostFile = NoHostFile
  /\ Hostname = getHostname(hostFile)
  /\ config = SourcesConfig
  /\ loaded = Sources
  /\ stateFile = <<>>
  /\ saveDocs = <<>>
  /\ sent = [s \in SrcIdx |-> <<>>]
  /\ failed = {}
  /\ persisted = [s \in SrcIdx |-> 0]
  /\ lastPoll = NoPoll
  /\ firstCycle = TRUE
  /\ rot = [s \in SrcIdx |-> "none"]
  /\ dirty = [s \in SrcIdx |-> FALSE]
  /\ saved = [s \in SrcIdx |-> FALSE]
  /\ rotations = 0
  /\ partials = 0
  /\ restarts = 0

SendRouterLine ==
  /\ pc = "router"
  /\ logglyJson' = toLogglyJson(RouterLogParser(routerLine))
  /\ pc' = "sent"
  /\ UNCHANGED << envVars, cur, lastPos, firstLine, errors, firstCycle,
                  receivers, config, loaded, hostFile, Hostname, routerLine,
                  shutdown, stateFile, saveDocs, pastVars, saved, restarts,
                  lastPoll >>

SpecRouter == InitRouter /\ [][SendRouterLine]_vars

\* The process is asked to stop (the service is stopped, or the console
\* gets an interrupt) while Run loops.  Run has no statement that looks at
\* the request: the loop of Process goes on as before.
Shutdown ==
  /\ ~shutdown
  /\ pc \notin {"main", "config", "router", "sent"}
  /\ shutdown' = TRUE
  /\ UNCHANGED << envVars, memVars, receivers, config, loaded, hostFile,
                  Hostname, routerLine, logglyJson, stateFile, saveDocs,
                  pastVars, saved, restarts, lastPoll >>

ShutdownWriter == \E s \in Written : AppendLine(s, MaxShutdownLines)

NextShutdown == ShutdownWriter \/ Shutdown \/ Process

SpecShutdown == Init /\ [][NextShutdown]_vars

\* The goroutine of Run is scheduled as long as it has a step to take:
\* weak fairness of every step of Process.  A poll can be taken whenever
\* pc = "tail", and it is the only step that moves cur or pc from there, so
\* the weak fairness of RunSource is written out as: infinitely often the
\* process is not at a poll, or infinitely often a poll is taken.
Polled == pc = "tail" /\ (cur' # cur \/ pc' # "tail")

SpecShutdownLive ==
  /\ SpecShutdown
  /\ WF_vars(LoadState \/ SaveStateTruncate \/ SaveStateWrite \/ Sleep)
  /\ ([]<>(pc # "tail") \/ []<><<Polled>>_vars)

\* The process tailing a file that is never rolled and can always be
\* opened, while the writer appends lines, whole or in two writes, and the
\* goroutine of Run is scheduled as above.
LiveWriter ==
  \/ \E s \in Written : AppendLine(s, MaxLiveLines)
  \/ \E s \in Written : AppendPartial(s, MaxLiveLines, MaxPartials)
  \/ \E s \in Written : CompleteLine(s)

NextLive == LiveWriter \/ Process

SpecLive == Init /\ [][NextLive]_vars

SpecLiveFair ==
  /\ SpecLive
  /\ WF_vars(LoadState \/ SaveStateTruncate \/ SaveStateWrite \/ Sleep)
  /\ ([]<>(pc # "tail") \/ []<><<Polled>>_vars)

\* ------------------------------------------------------------ properties
\* The lines of the records a poll handed to NotifyAllRelayers, in order.
Emitted(poll) == Ids(Flatten(Batches(poll.notifies)))

\* The lines of file f that are whole and in the dialect, in file order.
ParseableIds(f) == Ids(SelectSeq(f, LAMBDA e : e.p /\ e.w = e.n + 1))

\* The lines of f, from line k on, that start at or after offset P and whose
\* bytes in the file parse, in file order.
RECURSIVE ParsedFrom(_, _, _)
ParsedFrom(f, k, P) ==
  IF k > Len(f) THEN <<>>
  ELSE (IF StartOf(f, k) >= P /\ f[k].p /\ Min(f[k].w, f[k].n) >= HdrLen
        THEN <<f[k].id>> ELSE <<>>) \o ParsedFrom(f, k + 1, P)

\* The lines of f that end at or before offset P and are in the dialect.
SentBefore(f, P) ==
  { f[k].id : k \in { j \in DOMAIN f : f[j].p /\ StartOf(f, j) + f[j].w <= P } }

Range(seq) == { seq[i] : i \in DOMAIN seq }

Count(seq, x) == Cardinality({ i \in DOMAIN seq : seq[i] = x })

NonEmpty(ss) == SelectSeq(ss, LAMBDA b : b # <<>>)

\* "\n"+line for each of the tokens i..j of toks, in order.
RECURSIVE Joined(_, _, _)
Joined(toks, i, j) ==
  IF i > j THEN <<>>
  ELSE <<NL>> \o Bytes(toks[i].id, toks[i].from, toks[i].to)
       \o Joined(toks, i + 1, j)

\* The tokens of the scan of the watched file in the poll that has just
\* returned, and the indices of those that parse.
PollTokens == Tokens(files[lastPoll.src], lastPoll.from)
PollParsed == { i \in DOMAIN PollTokens : ParseOk(PollTokens[i]) }

\* C1: without rotation, whatever the appends and the polls, after a poll of
\* a file that is long enough for a signature the batches handed to the
\* fan-out for the source hold exactly the parseable lines of the file, in
\* file order, each once.
C1_ExactlyOnce ==
  \A s \in SrcIdx :
    (lastPoll.src = s /\ FileLen(files[s]) >= SigLen)
      => sent[s] = ParseableIds(files[s])

\* C2: with rotations whose archive starts with the firstLine the source
\* remembers, once the rotations have met a poll and while the process runs,
\* no parseable line of an archive, and none the high-water mark of the
\* watched file has passed, is missing from the batches handed to the
\* fan-out.
C2_NoLoss ==
  \A s \in SrcIdx :
    (rot[s] = "none" /\ pc # "panic")
      => /\ Range(ParseableIds(Flatten(archives[s]))) \subseteq Range(sent[s])
         /\ SentBefore(files[s], lastPos[s]) \subseteq Range(sent[s])

\* C3: a poll that sees a rewind and finds the archive, the new file being
\* long enough for a signature, hands over the archive's records from the
\* old lastPos on as one batch, then the records of the new file from offset
\* 0 as a later batch, and every parseable line of the two files has then
\* been handed over exactly once.
C3_ArchiveThenNew ==
  (lastPoll.src # 0 /\ lastPoll.rewind /\ lastPoll.match # 0
     /\ FileLen(files[lastPoll.src]) >= SigLen)
    => LET s == lastPoll.src
           a == Glob(s)[lastPoll.match]
       IN  /\ [i \in DOMAIN lastPoll.notifies |->
                 Ids(lastPoll.notifies[i].batch)]
                = NonEmpty(<< ParsedFrom(a, 1, lastPoll.pos0),
                              ParsedFrom(files[s], 1, 0) >>)
           /\ \A id \in Range(ParseableIds(a \o files[s])) :
                Count(sent[s], id) = 1

\* C4: a process that is started after a poll of a source and the saveState
\* that followed it, on a file that was not written since that poll, hands
\* over no record of the source in its first poll and leaves lastPos and
\* firstLine as they were persisted.
C4_ResumeUnchanged ==
  (lastPoll.src # 0 /\ lastPoll.fresh /\ lastPoll.saved /\ ~lastPoll.dirty)
    => LET s == lastPoll.src
           e == Entry(stateFile, Sources[s].Filename)
       IN  /\ lastPoll.notifies = <<>>
           /\ e # <<>>
           /\ lastPos[s] = e[1].LastPos
           /\ firstLine[s] = e[1].FirstLine
           /\ lastPoll.pos0 = e[1].LastPos
           /\ lastPoll.sig0 = e[1].FirstLine

C4_Witness ==
  /\ lastPoll.src # 0 /\ lastPoll.fresh /\ lastPoll.saved /\ ~lastPoll.dirty
  /\ lastPoll.pos0 > 0
  /\ sent[lastPoll.src] # <<>>

\* C5 as stated: when the state file holds offset P for a source, the first
\* poll of a process that is started scans from P, and hands over exactly
\* the parseable lines that start at or after P.
C5_ResumeAtOffset ==
  LET s == lastPoll.src
      e == Entry(stateFile, Sources[s].Filename)
  IN  (s # 0 /\ lastPoll.fresh /\ UnmarshalOk(stateFile) /\ e # <<>>)
        => /\ lastPoll.pos0 = e[1].LastPos
           /\ Emitted(lastPoll) = ParsedFrom(files[s], 1, e[1].LastPos)

\* C5, amended: when the state file holds offset P for a source whose file
\* is only appended to, the first poll of a process that is started scans
\* from P and hands over exactly the parseable lines that start at or after
\* P; except that it hands over nothing when P = 0 and the file holds fewer
\* than SigLen bytes.
C5_ResumeAtOffsetAnchored ==
  LET s == lastPoll.src
      e == Entry(stateFile, Sources[s].Filename)
  IN  (s # 0 /\ lastPoll.fresh /\ UnmarshalOk(stateFile) /\ e # <<>>)
        => /\ lastPoll.pos0 = e[1].LastPos
           /\ Emitted(lastPoll) =
                IF e[1].LastPos = 0 /\ FileLen(files[s]) < SigLen THEN <<>>
                ELSE ParsedFrom(files[s], 1, e[1].LastPos)

C5_Witness ==
  LET s == lastPoll.src
      e == Entry(stateFile, Sources[s].Filename)
  IN  /\ s # 0 /\ lastPoll.fresh /\ UnmarshalOk(stateFile) /\ e # <<>>
      /\ e[1].LastPos > 0
      /\ lastPoll.dirty
      /\ Emitted(lastPoll) # <<>>
      /\ Len(sent[s]) > Len(Emitted(lastPoll))

\* C6: a process that ends while saveState runs leaves the state file with
\* the whole document it held before or the whole new document.
C6_AtomicSave ==
  (pc = "start" /\ saveDocs # <<>> /\ UnmarshalOk(saveDocs[1]))
    => stateFile \in {saveDocs[1], saveDocs[2]}

\* C7: whenever a POST of a sink fails while a batch is relayed, the Send of
\* every registered sink is still called with the batch.
C7_SinkIsolation ==
  \A i \in DOMAIN lastPoll.notifies :
    LET n == lastPoll.notifies[i]
    IN  (\E k \in DOMAIN n.posts : n.posts[k].err)
          => Range(n.called) = receivers

\* C8: once the poll loop runs, no failure at run time, a failed POST of a
\* sink included, ends the process or stops the loop.
C8_LoopNeverStops == pc # "panic"

\* C9: in a scan, a parseable line followed by N unparseable lines and
\* another parseable line gives two consecutive records, the first with the
\* parsed message followed by "\n"+line for each of the N lines, in order;
\* and the scan gives one record per parseable line.
C9_Folding ==
  (lastPoll.src # 0 /\ lastPoll.scanned)
    => /\ Len(lastPoll.messages) = Cardinality(PollParsed)
       /\ \A i, j \in PollParsed :
            (i < j /\ \A k \in (i + 1)..(j - 1) : k \notin PollParsed)
              => LET r == Cardinality({ k \in PollParsed : k <= i })
                 IN  /\ lastPoll.messages[r].id = PollTokens[i].id
                     /\ lastPoll.messages[r].Message =
                          Parse(PollTokens[i]).Message
                            \o Joined(PollTokens, i + 1, j - 1)
                     /\ lastPoll.messages[r + 1].id = PollTokens[j].id

C9_Witness ==
  /\ lastPoll.src # 0 /\ lastPoll.scanned
  /\ \E i, j \in PollParsed :
       /\ j >= i + 3
       /\ \A k \in (i + 1)..(j - 1) : k \notin PollParsed
       /\ Len(lastPoll.messages) = 2

\* C10: at the end of a scan the unparseable lines that follow the last
\* parseable line are part of the Message of its record, and when the scan
\* met no parseable line the bytes of its unparseable lines are counted as
\* discarded.
C10_EofFlush ==
  (lastPoll.src # 0 /\ lastPoll.scanned)
    => IF PollParsed # {}
       THEN LET i == CHOOSE k \in PollParsed : \A m \in PollParsed : m <= k
                n == Len(lastPoll.messages)
            IN  /\ n > 0
                /\ lastPoll.messages[n].Message =
                     Parse(PollTokens[i]).Message
                       \o Joined(PollTokens, i + 1, Len(PollTokens))
       ELSE lastPoll.discarded =
              ByteLen(Joined(PollTokens, 1, Len(PollTokens)))

\* C11: when a poll finds the last line of the watched file half-written
\* (not yet ended by its LF), the scan does not emit that line and lastPos
\* is left just past the LF of the last complete line, so the next poll
\* reads the line again from its start.
C11_HalfLinePending ==
  \A s \in SrcIdx :
    (lastPoll.src = s /\ lastPoll.scanned /\ ~Complete(files[s]))
      => /\ lastPos[s] = StartOf(files[s], Len(files[s]))
         /\ files[s][Len(files[s])].id \notin Range(Emitted(lastPoll))

\* C15: for every batch the fan-out calls Send on the registered sinks one
\* after the other in the order of their registration: with Loggly and
\* Datadog both registered, Loggly's Send for a batch is entered, and its
\* POST made, before Datadog's Send for that batch.
C15_RegistrationOrder ==
  \A i \in DOMAIN lastPoll.notifies :
    LET n == lastPoll.notifies[i]
    IN  receivers = {"Loggly", "Datadog"}
          => /\ n.called[1] = "Loggly"
             /\ \A j, k \in DOMAIN n.posts :
                  (n.posts[j].sink = "Loggly" /\ n.posts[k].sink = "Datadog")
                    => j < k

\* The POSTs of sink in the call n of NotifyAllRelayers, in order.
PostsOf(n, sink) == SelectSeq(n.posts, LAMBDA p : p.sink = sink)

\* C18: for a batch, which is never empty, the Loggly sink's Send makes
\* exactly one POST, whose body holds one object per record of the batch,
\* every record, in the order of the batch, whatever the severity and the
\* source.
C18_LogglyOnePost ==
  \A i \in DOMAIN lastPoll.notifies :
    LET n == lastPoll.notifies[i]
    IN  "Loggly" \in Range(n.called)
          => /\ n.batch # <<>>
             /\ Len(PostsOf(n, "Loggly")) = 1
             /\ PostsOf(n, "Loggly")[1].body = n.batch

C18_Witness ==
  \E i \in DOMAIN lastPoll.notifies :
    LET n == lastPoll.notifies[i]
    IN  /\ "Loggly" \in Range(n.called)
        /\ Len(n.batch) >= 3
        /\ \E j, k \in DOMAIN n.batch :
             /\ n.batch[j].Severity \in datadogSeverities
             /\ n.batch[k].Severity \notin datadogSeverities
        /\ n.batch[1].Source \in datadogSourceExclusions

\* The records of a batch that the Datadog sink is to post.
DatadogEligible(batch) ==
  SelectSeq(batch, LAMBDA m : /\ m.Severity \in datadogSeverities
                              /\ m.Source \notin datadogSourceExclusions)

\* C17: for a batch, the Datadog sink's Send makes exactly one POST for each
\* record whose severity is ERROR, E, FATAL or F and whose source is neither
\* www_js nor yellowfin, in the order of the batch, and no POST for any
\* other record.
C17_DatadogPerRecord ==
  \A i \in DOMAIN lastPoll.notifies :
    LET n == lastPoll.notifies[i]
    IN  "Datadog" \in Range(n.called)
          => [ j \in DOMAIN PostsOf(n, "Datadog") |->
                 PostsOf(n, "Datadog")[j].body ]
               = [ j \in DOMAIN DatadogEligible(n.batch) |->
                     << DatadogEligible(n.batch)[j] >> ]

\* n is 1, 2, 4, 8, ...
IsPowerOfTwo(n) == \E k \in 0..n : n = 2 ^ k

\* C19: per source and kind of error (fileOpen, signatureSave), the count
\* is the number of consecutive failures of that step since its last
\* success: a failure adds one, a success resets it to 0, a poll that does
\* not come to the step leaves it alone; and the meta-log message of the
\* kind is written exactly at the failures that make the count 1, 2, 4, 8,
\* ..., so the first failure after a success is logged again.
C19_Dampening ==
  \A s \in SrcIdx :
    lastPoll.src = s
      => LET before == lastPoll.errors0
             after  == errors[s]
         IN  /\ lastPoll.opened => after.fileOpen = 0
             /\ lastPoll.sigSave = "saved" => after.signatureSave = 0
             /\ lastPoll.sigSave = "skipped"
                  => after.signatureSave = before.signatureSave
             /\ (~lastPoll.opened /\ before.fileOpen < MaxTicks)
                  => after.fileOpen = before.fileOpen + 1
             /\ (lastPoll.sigSave = "failed"
                   /\ before.signatureSave < MaxTicks)
                  => after.signatureSave = before.signatureSave + 1
             /\ before.fileOpen < MaxTicks
                  => ("fileOpen" \in lastPoll.logged
                        <=> (~lastPoll.opened
                               /\ IsPowerOfTwo(after.fileOpen)))
             /\ before.signatureSave < MaxTicks
                  => ("signatureSave" \in lastPoll.logged
                        <=> (lastPoll.sigSave = "failed"
                               /\ IsPowerOfTwo(after.signatureSave)))

C19_Witness ==
  \E s \in SrcIdx :
    /\ lastPoll.src = s
    /\ rotations > 0
    /\ ~lastPoll.opened
    /\ lastPoll.errors0.fileOpen = 7
    /\ errors[s].fileOpen = 8
    /\ "fileOpen" \in lastPoll.logged
    /\ errors[s].signatureSave = 3

\* The number of bytes of a signature.
RECURSIVE SigBytes(_)
SigBytes(sig) == IF sig = <<>> THEN 0 ELSE Head(sig)[2] + SigBytes(Tail(sig))

\* firstLine goes with lastPos: 64 bytes when lastPos > 0, none when it is 0.
Anchored(lp, fl) ==
  /\ lp > 0 => SigBytes(fl) = SigLen
  /\ lp = 0 => fl = <<>>

\* C14: between polls, and in every state document that was written to the
\* state file, each source's firstLine has exactly 64 bytes when its
\* lastPos is above 0 and is empty when its lastPos is 0.
C14_SignatureWithPosition ==
  /\ \A s \in SrcIdx : Anchored(lastPos[s], firstLine[s])
  /\ UnmarshalOk(stateFile)
       => \A k \in DOMAIN stateFile :
            stateFile[k].t = "entry"
              => Anchored(stateFile[k].LastPos, stateFile[k].FirstLine)

\* C13: when a poll's scan of the watched file has come to its end without
\* an error, lastPos is at least 0 and at most the length of the file.
C13_PositionInFile ==
  \A s \in SrcIdx :
    (lastPoll.src = s /\ lastPoll.scanned)
      => /\ 0 <= lastPos[s]
         /\ lastPos[s] <= FileLen(files[s])

C13_Witness ==
  \E s \in SrcIdx :
    /\ lastPoll.src = s
    /\ lastPoll.scanned
    /\ archives[s] # <<>>
    /\ lastPoll.pos0 = 0
    /\ lastPos[s] = FileLen(files[s])
    /\ lastPos[s] >= SigLen

\* The ids of the lines of file f.
LineIds(f) == { f[i].id : i \in DOMAIN f }

DocumentLogs == Flatten(config)

\* C16: the sources are registered in the order of the configuration
\* document, and within a poll cycle they are tailed one after the other in
\* that order: when the batch of a source is handed to the fan-out, no
\* later source has had a batch yet, and every earlier source has been
\* tailed and has had its batch.
C16_SourceOrder ==
  /\ pc \notin {"config", "exit"}
       => [i \in DOMAIN loaded |-> loaded[i].Name]
            = [i \in DOMAIN DocumentLogs |-> DocumentLogs[i].name]
  /\ \A s \in SrcIdx :
       (lastPoll.src = s /\ firstCycle)
         => /\ loaded[s] = Sources[s]
            /\ \A x \in SrcIdx :
                 /\ x > s => sent[x] = <<>>
                 /\ (x < s /\ FileLen(files[x]) >= SigLen)
                      => /\ firstLine[x] # <<>>
                         /\ sent[x] = ParseableIds(files[x])

C16_Witness ==
  /\ lastPoll.src = 2
  /\ firstCycle
  /\ Len(DocumentLogs) = 2
  /\ sent[1] # <<>>
  /\ Emitted(lastPoll) # <<>>

\* C20: when a log of the configuration document names a parser that is not
\* known, LoadConfiguration still succeeds and the process does not exit:
\* the log is skipped and every log with a known parser becomes a source.
C20_UnknownParserSkipped ==
  (/\ pc # "config"
   /\ \E i \in DOMAIN DocumentLogs :
        DocumentLogs[i].parser \notin parsersByName)
    => /\ pc # "exit"
       /\ [i \in DOMAIN loaded |-> loaded[i].Name]
            = LET ok == SelectSeq(DocumentLogs,
                                  LAMBDA l : l.parser \in parsersByName)
              IN  [i \in DOMAIN ok |-> ok[i].name]

\* C30: when a Seek on the watched file has failed in a poll (to the END,
\* to 0 after a rewind, or to lastPos before the scan), the source is
\* abandoned for that poll: the watched file is not scanned, no batch is
\* handed to the sinks and lastPos is what it was before the poll.
C30_SeekFailureAbandons ==
  \A s \in SrcIdx :
    (lastPoll.src = s /\ lastPoll.seekErr # "none")
      => /\ ~lastPoll.scanned
         /\ lastPoll.notifies = <<>>
         /\ lastPos[s] = lastPoll.pos0

\* C27: when runSource has returned from a poll, every file handle the
\* poll opened (the watched file, the candidates of the glob, the archive
\* that matched) has been closed.
C27_HandlesClosed ==
  (lastPoll.src # 0 /\ ~lastPoll.panicked)
    => lastPoll.handles.closed = lastPoll.handles.opened

\* A poll that detected a rewind, read the matching archive, then left
\* runSource early because the new file is too short for a signature.
C27_Witness ==
  /\ lastPoll.src # 0
  /\ ~lastPoll.panicked
  /\ lastPoll.rewind
  /\ lastPoll.match # 0
  /\ ~lastPoll.scanned
  /\ lastPoll.handles.opened = {rawHandle, lastPoll.match}
  /\ lastPoll.handles.closed = lastPoll.handles.opened

\* The calls of op that have been entered and have not returned before
\* the i-th call of the poll.
InProgress(events, i, op) ==
  Cardinality({j \in 1..(i - 1) :
                 events[j].op = op /\ events[j].ev = "enter"})
    - Cardinality({j \in 1..(i - 1) :
                     events[j].op = op /\ events[j].ev = "return"})

\* C28: within a poll a scan is entered only while no scan and no Send is
\* in progress, and a sink's Send is entered only inside the one scan that
\* produced the batch, while no other Send is in progress.
C28_SerialScansAndSends ==
  \A i \in DOMAIN lastPoll.events :
    lastPoll.events[i].ev = "enter"
      => /\ InProgress(lastPoll.events, i, "Send") = 0
         /\ InProgress(lastPoll.events, i, "scan")
              = IF lastPoll.events[i].op = "Send" THEN 1 ELSE 0

\* A poll that scanned the matching archive after a rewind and relayed its
\* batch to two sinks, one after the other, inside that scan.
C28_Witness ==
  /\ lastPoll.rewind
  /\ lastPoll.match # 0
  /\ ~lastPoll.panicked
  /\ Len(lastPoll.notifies) >= 1
  /\ Len(lastPoll.notifies[1].called) = 2
  /\ Len(lastPoll.notifies[1].posts) >= 2
  /\ Len(lastPoll.events) >= 6

\* The entries of a state document.
Entries(raw) == SelectSeq(raw, LAMBDA c : c.t = "entry")

\* C23: the state is loaded once, before the first poll of a process; in
\* every cycle saveState runs once, after the last source has been tailed
\* and before the sleep; and when saveState has written the file, the file
\* holds one entry per configured file name, with the lastPos and firstLine
\* the source has in memory, and no other entry.
C23_LoadOnceSaveEachCycle ==
  [][ /\ pc' = "start" => (pc = "start" \/ restarts' = restarts + 1)
      /\ pc' = "tail" => pc \in {"start", "tail", "sleep"}
      /\ (pc = "start" /\ pc' = "tail")
           => LET res == LoadStateResult(stateFile, lastPos, firstLine)
              IN  /\ lastPos' = res.lastPos
                  /\ firstLine' = res.firstLine
                  /\ lastPoll' = NoPoll
      /\ (pc = "tail" /\ pc' = "tail") => cur' \in {cur, cur + 1}
      /\ pc' = "save" => \/ pc = "save"
                         \/ /\ pc = "tail"
                            /\ cur = Len(Sources)
                            /\ lastPoll'.src = Len(Sources)
      /\ pc' = "write" => pc \in {"save", "write"}
      /\ pc' = "sleep" => pc \in {"write", "sleep"}
      /\ (pc = "write" /\ pc' = "sleep")
           => /\ UnmarshalOk(stateFile')
              /\ Len(Entries(stateFile')) = Len(Sources)
              /\ \A i \in SrcIdx :
                   Entry(stateFile', Sources[i].Filename)
                     = << Chunk("entry", Sources[i].Filename,
                                firstLine'[i], lastPos'[i]) >>
              /\ lastPos' = lastPos
              /\ firstLine' = firstLine
      /\ stateFile' # stateFile
           => pc \in {"save", "write"}
    ]_vars

\* saveState has written the file at the end of a cycle after the first,
\* one source has read its file and the other has read nothing.
C23_Witness ==
  /\ pc = "sleep"
  /\ ~firstCycle
  /\ stateFile = Marshal(lastPos, firstLine)
  /\ \E i \in SrcIdx : lastPos[i] > 0
  /\ \E i \in SrcIdx : lastPos[i] = 0

\* The process has loaded the state and has not polled yet.
JustLoaded ==
  pc = "tail" /\ cur = 1 /\ firstCycle /\ lastPoll.src = 0

\* C24: after loadState, a source whose file name has an entry in a
\* well-formed state file has the entry's lastPos and firstLine; a source
\* without an entry, and every source when the file is missing or is not
\* well-formed, has lastPos 0 and an empty firstLine; entries under other
\* file names change nothing.
C24_LoadStateByFilename ==
  JustLoaded
    => \A i \in SrcIdx :
         LET ks == { k \in DOMAIN stateFile :
                       /\ stateFile[k].t = "entry"
                       /\ stateFile[k].Filename = Sources[i].Filename }
         IN  IF UnmarshalOk(stateFile) /\ ks # {}
             THEN \A k \in ks : /\ lastPos[i] = stateFile[k].LastPos
                                /\ firstLine[i] = stateFile[k].FirstLine
             ELSE lastPos[i] = 0 /\ firstLine[i] = <<>>

\* The state was loaded from a well-formed file with an entry for a file
\* name that no source has, an entry for the first source and none for the
\* second.
C24_Witness ==
  /\ JustLoaded
  /\ UnmarshalOk(stateFile)
  /\ Entry(stateFile, "other.log") # <<>>
  /\ Entry(stateFile, Sources[1].Filename) # <<>>
  /\ Entry(stateFile, Sources[2].Filename) = <<>>
  /\ lastPos[1] > 0
  /\ firstLine[1] # <<>>
  /\ lastPos[2] = 0

\* The <<sink, line>> of every record that a POST of the notifies carried.
Posted(notifies) ==
  LET posts == Flatten([i \in DOMAIN notifies |-> notifies[i].posts])
  IN  UNION { { <<posts[k].sink, posts[k].body[j].id>> :
                  j \in DOMAIN posts[k].body } : k \in DOMAIN posts }

\* C25: a record whose POST to a sink has failed is never sent to that
\* sink again: no later poll carries it in a POST to the sink.
C25_FailedNeverResent ==
  [][ sent' # sent => Posted(lastPoll'.notifies) \cap failed = {} ]_vars

\* Within one run of the process, a poll does not hand over a record that
\* an earlier poll of the run has handed over, whatever became of its
\* POSTs: lastPos has moved past it.
C25_NotResentWhileRunning ==
  [][ (sent' # sent /\ ~lastPoll'.fresh /\ restarts = 0)
        => Posted(lastPoll'.notifies) \cap failed = {} ]_vars

\* C26: in the first poll of a source after the process was ended at any
\* point and started again, the records that are handed over a second time
\* are records of lines that start at or after the lastPos that saveState
\* last persisted for the source, and no record of the lines the poll has
\* passed is lost.
C26_ReplayBoundedByPersisted ==
  \A s \in SrcIdx :
    (lastPoll.src = s /\ lastPoll.fresh)
      => /\ \A k \in DOMAIN files[s] :
              ( /\ files[s][k].id \in Range(Emitted(lastPoll))
                /\ Count(sent[s], files[s][k].id) > 1 )
                => StartOf(files[s], k) >= persisted[s]
         /\ SentBefore(files[s], lastPos[s]) \subseteq Range(sent[s])

\* The records of the batches of the last poll, as toMessageArray left them.
PollRecords ==
  Flatten([i \in DOMAIN lastPoll.notifies |->
             WithHost(lastPoll.notifies[i].batch, Hostname, ownhostname)])

\* C21: the Host of every record is the content of the host name file
\* without a leading http:// or https:// when the file exists and is not
\* empty, and the host name of the operating system otherwise.
C21_HostOfRecords ==
  \A i \in DOMAIN PollRecords :
    PollRecords[i].Host =
      IF hostFile.exists /\ hostFile.content # <<>>
      THEN LET line == hostFile.content
               n == IF Len(line) >= 7 /\ [k \in 1..7 |-> line[k]] = Http
                    THEN 7
                    ELSE IF /\ Len(line) >= 8
                            /\ [k \in 1..8 |-> line[k]] = Https
                    THEN 8 ELSE 0
           IN  [k \in 1..(Len(line) - n) |-> line[k + n]]
      ELSE ownhostname

\* The number that a decimal numeral writes.
RECURSIVE DecimalValue(_, _)
DecimalValue(str, acc) ==
  IF str = <<>> THEN acc
  ELSE DecimalValue(Tail(str), 10 * acc + DigitValue(Head(str)))

IsDecimal(str) ==
  str # <<>> /\ \A k \in DOMAIN str : DigitValue(str[k]) < 10

\* C22: when the count of bytes in a line of the router's access log is the
\* decimal numeral N, the JSON sent to Loggly for the line has
\* response_bytes = N.
C22_ResponseBytesDecimal ==
  (pc = "sent" /\ IsDecimal(routerLine.ResponseBytes))
    => logglyJson.response_bytes
         = DecimalValue(routerLine.ResponseBytes, 0)

\* C29: after the process has been asked to stop, Run finishes the poll of
\* the current source, saves the state and returns: eventually Run has
\* returned, with the state file holding the lastPos of every source.
C29_ShutdownReturns ==
  shutdown ~> ( /\ pc = "returned"
                /\ stateFile = Marshal(lastPos, firstLine) )

\* C29, the safety half: once asked to stop, Run does not go to sleep and
\* start another cycle.
C29_NoCycleAfterShutdown ==
  [][ shutdown => ~(pc = "sleep" /\ pc' = "tail") ]_vars

\* Rotation handling ran in the last poll: handleLogRoll opened a candidate.
RollHandled == lastPoll.handles.opened \ {rawHandle} # {}

\* The calls on the archive come before the calls on the watched file.
ArchiveFirst ==
  \A i, j \in DOMAIN lastPoll.events :
    ( /\ lastPoll.events[i].op = "scan"
      /\ lastPoll.events[i].what = "archive"
      /\ lastPoll.events[j].op = "scan"
      /\ lastPoll.events[j].what = "watched" ) => i < j

NoCandidate(s, sig) ==
  \A k \in DOMAIN Glob(s) : ReadFileSignature(Glob(s)[k]) # sig

\* C32: when a poll detects a rewind and no file of the glob starts with
\* the remembered firstLine, rotation handling scans nothing and relays
\* nothing, runSource does not return on its account, and the poll goes on
\* with the watched file from offset 0: saveFileSignature, then (when the
\* signature was taken) the scan of the whole file.
C32_NoMatchContinuesAtZero ==
  \A s \in SrcIdx :
    ( /\ lastPoll.src = s /\ lastPoll.opened
      /\ FileLen(files[s]) < lastPoll.pos0
      /\ NoCandidate(s, lastPoll.sig0) )
      => /\ lastPoll.rewind
         /\ lastPoll.match = 0
         /\ \A i \in DOMAIN lastPoll.events :
              lastPoll.events[i].what # "archive"
         /\ lastPoll.from = 0
         /\ lastPoll.sigSave # "skipped"
         /\ firstLine[s] = ReadFileSignature(files[s])
         /\ IF FileLen(files[s]) < SigLen
            THEN /\ lastPoll.sigSave = "failed"
                 /\ lastPoll.notifies = <<>>
                 /\ lastPos[s] = 0
            ELSE LET scan == Scan(files[s], 0, lastPoll.source)
                 IN  /\ lastPoll.sigSave = "saved"
                     /\ lastPoll.scanned
                     /\ lastPoll.messages = scan.messages
                     /\ lastPos[s] = scan.lastPos
                     /\ Len(lastPoll.notifies)
                          = IF scan.messages = <<>> THEN 0 ELSE 1

\* A poll that detected a rewind, found no archive, and relayed a batch
\* read from offset 0 of the new file.
C32_Witness ==
  \E s \in SrcIdx :
    /\ lastPoll.src = s
    /\ lastPoll.rewind
    /\ NoCandidate(s, lastPoll.sig0)
    /\ lastPoll.match = 0
    /\ lastPoll.from = 0
    /\ lastPoll.scanned
    /\ Len(lastPoll.notifies) = 1
    /\ lastPos[s] = FileLen(files[s])

\* C37: the file that handleLogRoll takes for the archived predecessor is
\* never the watched file itself (the last path of the glob), and its
\* first 64 bytes equal the firstLine the source remembered before the
\* rewind.
C37_ArchiveNotWatchedFile ==
  \A s \in SrcIdx :
    (lastPoll.src = s /\ lastPoll.rewind /\ lastPoll.match # 0)
      => /\ lastPoll.match # Len(Glob(s))
         /\ ReadFileSignature(Glob(s)[lastPoll.match]) = lastPoll.sig0

\* The step is a runSource of the source cur.
PollStep == pc = "tail" /\ lastPoll'.src = cur

\* C33: a runSource whose os.Open fails changes nothing but the fileOpen
\* count of its source: lastPos and firstLine of every source, the records
\* relayed and the state file are as before, no call of scan or Send is
\* made, and Run goes on to the next source of the cycle.  A runSource
\* whose os.Open succeeds leaves the fileOpen count of its source at 0.
C33_OpenFailureFrame ==
  [][ PollStep =>
        IF ~lastPoll'.opened
        THEN /\ lastPos' = lastPos
             /\ firstLine' = firstLine
             /\ sent' = sent
             /\ stateFile' = stateFile
             /\ lastPoll'.events = <<>>
             /\ lastPoll'.notifies = <<>>
             /\ errors' = [errors EXCEPT
                             ![cur].fileOpen = Tick(@, MaxTicks).count]
             /\ IF cur < Len(Sources)
                THEN pc' = "tail" /\ cur' = cur + 1
                ELSE pc' = "save"
        ELSE errors'[cur].fileOpen = 0 ]_vars

\* After a poll of a source with lastPos > 0 whose os.Open failed, again:
\* the source is where it was and the next source is to be tailed.
C33_Witness ==
  /\ lastPoll.src = 1
  /\ ~lastPoll.opened
  /\ lastPoll.errors0.fileOpen >= 1
  /\ errors[1].fileOpen = lastPoll.errors0.fileOpen + 1
  /\ lastPos[1] > 0
  /\ lastPos[1] = lastPoll.pos0
  /\ firstLine[1] # <<>>
  /\ pc = "tail"
  /\ cur = 2

\* C34: NotifyAllRelayers is called only with a batch that holds a record:
\* no call of a poll carries an empty batch, and a poll whose scan of the
\* watched file yields no record calls no Send and makes no POST.
C34_NoEmptyBatch ==
  lastPoll.src # 0 =>
    /\ \A i \in DOMAIN lastPoll.notifies :
         lastPoll.notifies[i].batch # <<>>
    /\ ( /\ lastPoll.scanned
         /\ ~lastPoll.rewind
         /\ Scan(files[lastPoll.src], lastPoll.from,
                 lastPoll.source).messages = <<>> )
         => /\ lastPoll.notifies = <<>>
            /\ \A i \in DOMAIN lastPoll.events :
                 lastPoll.events[i].op # "Send"

\* A poll whose scan read lines of the file and found no record in them.
C34_Witness ==
  /\ lastPoll.src # 0
  /\ lastPoll.scanned
  /\ lastPoll.from < FileLen(files[lastPoll.src])
  /\ lastPos[lastPoll.src] = FileLen(files[lastPoll.src])
  /\ lastPoll.messages = <<>>
  /\ lastPoll.extraLines # <<>>
  /\ lastPoll.notifies = <<>>

\* C35: a scan that ends in a read error of the scanner hands over no
\* batch and leaves lastPos where it was when the scan began, so that the
\* next poll starts at that offset again: after a poll whose scan of the
\* watched file failed lastPos is the offset that scan started from, and
\* after a poll whose scan of the archive failed lastPos and firstLine are
\* those the poll began with, nothing of the archive being relayed.
C35_ReadErrorRetried ==
  \A s \in SrcIdx :
    lastPoll.src = s =>
      /\ lastPoll.readErr =>
           /\ lastPoll.messages = <<>>
           /\ \A i \in DOMAIN lastPoll.events :
                lastPoll.events[i].what # "watched"
                  \/ lastPoll.events[i].op # "Send"
           /\ lastPos[s] = lastPoll.from
      /\ lastPoll.rollErr =>
           /\ \A i \in DOMAIN lastPoll.events :
                lastPoll.events[i].what # "archive"
                  \/ lastPoll.events[i].op # "Send"
           /\ lastPos[s] = lastPoll.pos0
           /\ firstLine[s] = lastPoll.sig0

\* The first token of the last poll's scan that parses (0: none).
FirstParsed ==
  IF PollParsed = {} THEN 0
  ELSE CHOOSE i \in PollParsed : \A j \in PollParsed : i <= j

\* C36: the lines of a scan that come before its first parseable line are
\* in no record of the batch, whatever was emitted in earlier polls: their
\* bytes (each with a line feed in front) are the bytes the scan counts as
\* discarded, and lastPos is set to the end of what the scanner read, past
\* them.
C36_LeadingLinesDiscarded ==
  (lastPoll.src # 0 /\ lastPoll.scanned /\ FirstParsed # 0)
    => /\ lastPoll.discarded
            = ByteLen(Joined(PollTokens, 1, FirstParsed - 1))
       /\ \A r \in DOMAIN lastPoll.messages :
            \A b \in DOMAIN lastPoll.messages[r].Message :
              \A k \in 1..(FirstParsed - 1) :
                lastPoll.messages[r].Message[b][1] # PollTokens[k].id
       /\ lastPoll.messages[1].id = PollTokens[FirstParsed].id
       /\ lastPos[lastPoll.src]
            = Max(lastPoll.from, FileLen(files[lastPoll.src]))

\* A poll after one that emitted a record: its scan starts with a line
\* that does not parse, discards it and emits the record that follows.
C36_Witness ==
  /\ lastPoll.src # 0 /\ lastPoll.scanned
  /\ lastPoll.from > 0
  /\ sent[lastPoll.src] # Emitted(lastPoll)
  /\ FirstParsed = 2
  /\ PollTokens[1].from = 0
  /\ lastPoll.discarded = PollTokens[1].to + 1
  /\ Len(lastPoll.messages) = 1
  /\ lastPos[lastPoll.src] = FileLen(files[lastPoll.src])

WholeLine(s, k) ==
  \E i \in DOMAIN files[s] :
    /\ files[s][i].id = k
    /\ files[s][i].p
    /\ files[s][i].w = files[s][i].n + 1

\* C38: while no Send panics, every whole parseable line of a file that is
\* never rolled and holds at least 64 bytes is eventually in a batch handed
\* to NotifyAllRelayers.
C38_EveryLineRelayed ==
  [](pc # "panic")
    => \A s \in Written : \A k \in 1..MaxLiveLines :
         (WholeLine(s, k) /\ FileLen(files[s]) >= SigLen)
           ~> (k \in Range(sent[s]))

====
